---------------------------- MODULE Spec2Model ----------------------------
(***************************************************************************)
(* The kanji-recognition pipeline of the repository: the useRapidOCR hook  *)
(* (dictionary and model load, processImage), its CTC decoder, the image   *)
(* normalizer, and the two components that call the hook.                  *)
(*                                                                         *)
(* Strings are sequences of one-character strings, so that join('') and    *)
(* split(/\r?\n/) are modelled by what they do.  Indices into charList and *)
(* into a score row are 0-based as in the source; positions in a TLA+      *)
(* sequence are 1-based, hence the "+ 1" where the source indexes.         *)
(***************************************************************************)
EXTENDS Integers, Sequences, FiniteSets, TLC

VARIABLES
    \* useRapidOCR: React state of the hook, the position of init() and the
    \* body of the dictionary response (the local text of init)
    session, charList, isLoading, error, initPc, loadsStarted, dictText,
    \* the component that uses the hook, and its React state
    mounted, ocrStatus, ocrResult, isChecking,
    \* the invocations of handleCheck / checkDrawing and of processImage
    checks, calls,
    \* ctcDecode: its arguments and its locals / result
    output, predIndices, charIndices, text, decodePhase,
    \* the pre-processing part of img.onload
    img, resizedWidth, float32Data, normPhase,
    \* parseCSVLine: its argument and its result
    csvLine, csvValues, parsePhase,
    \* useKanjiData: the body of the CSV response, the React state of the hook
    \* and the position of loadCSV
    csvText, kanjiData, csvIsLoading, csvError, csvPc,
    \* LensOverlay: React state, the scene and the page it is used with, the
    \* elements handleCapture and handleOCR passed to exportToCanvas, and the
    \* position of handleOCR
    position, size, isOCRProcessing, scene, captureElements, ocrElements, ocrPc,
    \* KanjiPage / KanjiOverlay: the card shown, the hearts left and the
    \* pending callbacks of setTimeout(..., 1000)
    currentIndex, hearts, timers,
    \* the drag and resize state of an overlay panel (KanjiOverlay or
    \* LensOverlay; position and size above are those of the panel), and the
    \* number of mouse events it has handled
    panel, isDragging, isResizing, resizeHandle, dragOffset, resizeStart,
    dragStartRef, resizeStartRef, events,
    \* StrokeOrderAnimation: the prop kanji, its React state and the fetches of
    \* its effect
    kanjiProp, svgContent, svgError, isPlaying, fetches

vars == <<session, charList, isLoading, error, initPc, loadsStarted, dictText,
          mounted, ocrStatus, ocrResult, isChecking, checks, calls,
          output, predIndices, charIndices, text, decodePhase,
          img, resizedWidth, float32Data, normPhase,
          csvLine, csvValues, parsePhase,
          csvText, kanjiData, csvIsLoading, csvError, csvPc,
          position, size, isOCRProcessing, scene, captureElements, ocrElements,
          ocrPc, currentIndex, hearts, timers,
          panel, isDragging, isResizing, resizeHandle, dragOffset, resizeStart,
          dragStartRef, resizeStartRef, events,
          kanjiProp, svgContent, svgError, isPlaying, fetches>>

hookVars   == <<session, charList, isLoading, error, initPc, loadsStarted,
                 dictText>>
pageVars   == <<currentIndex, hearts, timers>>
panelVars  == <<panel, isDragging, isResizing, resizeHandle, dragOffset,
                resizeStart, dragStartRef, resizeStartRef, events>>
strokeVars == <<kanjiProp, svgContent, svgError, isPlaying, fetches>>
\* the variables of the panels and of the stroke animation
restVars   == <<panelVars, strokeVars>>
uiVars     == <<mounted, ocrStatus, ocrResult, isChecking, pageVars, restVars>>
decodeVars == <<output, predIndices, charIndices, text, decodePhase>>
normVars   == <<img, resizedWidth, float32Data, normPhase>>
parseVars  == <<csvLine, csvValues, parsePhase>>
csvVars    == <<csvText, kanjiData, csvIsLoading, csvError, csvPc>>
lensVars   == <<position, size, isOCRProcessing, scene, captureElements,
                ocrElements, ocrPc>>
\* the variables of the CSV loader and of the lens
dataVars   == <<parseVars, csvVars, lensVars>>

NULL == "null"

-----------------------------------------------------------------------------
(* Bounds of the model *)

\* longest score matrix (sequence_length) drawn as an input of ctcDecode
MaxT == 3

\* the scores a cell of the score matrix is drawn from
ScoreValues == {0, 1}

\* the vocabulary sizes (dims[2]) of the drawn score matrices
VocabSizes == {2, 3, 4}

\* most cards of a drawn card list
MaxCards == 3

\* most mouse events, in one behaviour, of a panel
MaxEvents == 4

\* most fetches, in one behaviour, of StrokeOrderAnimation
MaxFetches == 3

\* most invocations, in one behaviour, of handleCheck / checkDrawing and of
\* processImage by another consumer of the hook, taken together
MaxInvocations == 2

\* largest width and height (in pixels) of the images drawn as inputs
MaxWidth == 8
MaxHeight == 5

\* longest line drawn as an input of parseCSVLine, and longest CSV text
MaxLineLen == 5
MaxTextLen == 5

-----------------------------------------------------------------------------
(* Strings *)

Str_blank == <<"b", "l", "a", "n", "k">>
Str_space == <<" ">>

RECURSIVE Join(_)
\* Array.prototype.join(''): the concatenation of the strings of a list
Join(strs) ==
    IF strs = <<>> THEN <<>> ELSE Head(strs) \o Join(Tail(strs))

RECURSIVE SplitLinesFrom(_, _, _)
\* text.split(/\r?\n/): every "\n", together with a "\r" directly before it,
\* is a separator; the pieces between separators are the lines, the last
\* piece included even when it is empty.
SplitLinesFrom(txt, cur, acc) ==
    IF txt = <<>> THEN Append(acc, cur)
    ELSE IF Head(txt) = "\n"
         THEN LET line == IF cur # <<>> /\ cur[Len(cur)] = "\r"
                          THEN SubSeq(cur, 1, Len(cur) - 1) ELSE cur
              IN  SplitLinesFrom(Tail(txt), <<>>, Append(acc, line))
         ELSE SplitLinesFrom(Tail(txt), Append(cur, Head(txt)), acc)

SplitLines(txt) == SplitLinesFrom(txt, <<>>, <<>>)

\* mutant of MakeCharList: the blank marker is not prepended
MakeCharListNoBlank(lines) == lines \o <<Str_space>>

\* ['blank', ...lines, ' ']
MakeCharList(lines) == <<Str_blank>> \o lines \o <<Str_space>>

\* the dictionary resources the model draws the response body from
DictTexts ==
    { <<"A", "\n", "B">>,
      <<"A", "\r", "\n", "B", "\n">>,
      <<"A">> }

-----------------------------------------------------------------------------
(* ctcDecode *)

\* -Infinity: below every score of ScoreValues
NegInfinity == -1

RECURSIVE ArgmaxScan(_, _, _, _, _, _)
\* the inner loop: for (i = 0; i < vocabSize; i++) if (data[offset+i] > maxVal)
ArgmaxScan(data, offset, vocabSize, i, maxVal, maxIdx) ==
    IF i >= vocabSize THEN maxIdx
    ELSE IF data[offset + i + 1] > maxVal
         THEN ArgmaxScan(data, offset, vocabSize, i + 1, data[offset + i + 1], i)
         ELSE ArgmaxScan(data, offset, vocabSize, i + 1, maxVal, maxIdx)

\* mutant of ArgmaxRow: ">=" in place of ">" (the last maximum wins)
RECURSIVE ArgmaxScanGe(_, _, _, _, _, _)
ArgmaxScanGe(data, offset, vocabSize, i, maxVal, maxIdx) ==
    IF i >= vocabSize THEN maxIdx
    ELSE IF data[offset + i + 1] >= maxVal
         THEN ArgmaxScanGe(data, offset, vocabSize, i + 1, data[offset + i + 1], i)
         ELSE ArgmaxScanGe(data, offset, vocabSize, i + 1, maxVal, maxIdx)

ArgmaxRowLastWins(data, t, vocabSize) ==
    ArgmaxScanGe(data, t * vocabSize, vocabSize, 0, NegInfinity, 0)

\* one pass of the outer loop: maxVal = -Infinity, maxIdx = 0, offset = t * vocabSize
ArgmaxRow(data, t, vocabSize) ==
    ArgmaxScan(data, t * vocabSize, vocabSize, 0, NegInfinity, 0)

\* the outer loop: predIndices.push(maxIdx) for t = 0 .. sequenceLength - 1
ArgmaxAll(out) ==
    LET sequenceLength == out.dims[2]
        vocabSize      == out.dims[3]
    IN  [t \in 1..sequenceLength |-> ArgmaxRow(out.data, t - 1, vocabSize)]

RECURSIVE CollapseFrom(_, _, _)
\* the CTC loop: skip an index equal to its predecessor, push it unless it is 0
CollapseFrom(pred, i, acc) ==
    IF i >= Len(pred) THEN acc
    ELSE IF i > 0 /\ pred[i + 1] = pred[i] THEN CollapseFrom(pred, i + 1, acc)
    ELSE IF pred[i + 1] # 0 THEN CollapseFrom(pred, i + 1, Append(acc, pred[i + 1]))
    ELSE CollapseFrom(pred, i + 1, acc)

RECURSIVE CollapseLastEmitted(_, _, _)
\* mutant of Collapse: compares with the last index emitted instead of the
\* predecessor, which merges repeats across a blank
CollapseLastEmitted(pred, i, acc) ==
    IF i >= Len(pred) THEN acc
    ELSE IF pred[i + 1] = 0 THEN CollapseLastEmitted(pred, i + 1, acc)
    ELSE IF acc # <<>> /\ acc[Len(acc)] = pred[i + 1]
         THEN CollapseLastEmitted(pred, i + 1, acc)
    ELSE CollapseLastEmitted(pred, i + 1, Append(acc, pred[i + 1]))

CollapseAcrossBlank(pred) == CollapseLastEmitted(pred, 0, <<>>)

RECURSIVE CollapseNoMerge(_, _, _)
\* mutant of Collapse: the repeat test is missing, only blanks are dropped
CollapseNoMerge(pred, i, acc) ==
    IF i >= Len(pred) THEN acc
    ELSE IF pred[i + 1] # 0 THEN CollapseNoMerge(pred, i + 1, Append(acc, pred[i + 1]))
    ELSE CollapseNoMerge(pred, i + 1, acc)

CollapseBlanksOnly(pred) == CollapseNoMerge(pred, 0, <<>>)

RECURSIVE CollapseKeepBlanks(_, _, _)
\* mutant of Collapse: the test for the blank index is missing, only repeats
\* are dropped
CollapseKeepBlanks(pred, i, acc) ==
    IF i >= Len(pred) THEN acc
    ELSE IF i > 0 /\ pred[i + 1] = pred[i] THEN CollapseKeepBlanks(pred, i + 1, acc)
    ELSE CollapseKeepBlanks(pred, i + 1, Append(acc, pred[i + 1]))

CollapseRepeatsOnly(pred) == CollapseKeepBlanks(pred, 0, <<>>)

Collapse(pred) == CollapseFrom(pred, 0, <<>>)

\* mutant of MapChars: an index beyond the vocabulary is clamped to its last
\* entry
MapCharsClamp(idxs, cl) ==
    [k \in 1..Len(idxs) |->
        IF idxs[k] < 0 \/ idxs[k] >= Len(cl) THEN cl[Len(cl)] ELSE cl[idxs[k] + 1]]

\* charIndices.map(idx => idx out of range ? '' : charList[idx])
MapChars(idxs, cl) ==
    [k \in 1..Len(idxs) |->
        IF idxs[k] < 0 \/ idxs[k] >= Len(cl) THEN <<>> ELSE cl[idxs[k] + 1]]

\* the locals of one run of ctcDecode and the string it returns
ctcDecodeRun(out, cl) ==
    LET pred == ArgmaxAll(out)
        idxs == Collapse(pred)
    IN  [predIndices |-> pred, charIndices |-> idxs,
         text |-> Join(MapChars(idxs, cl))]

ctcDecode(out, cl) == ctcDecodeRun(out, cl).text

-----------------------------------------------------------------------------
(* The inputs of ctcDecode *)

\* the tensors of dims [1, T, V] with T*V scores in row-major order
Outputs ==
    UNION { { [dims |-> <<1, T, V>>, data |-> d] :
                d \in [1..(T * V) -> ScoreValues] } :
            T \in 0..MaxT, V \in VocabSizes }

CharLists == { MakeCharList(SplitLines(txt)) : txt \in DictTexts }

\* the score matrix whose row t has score 1 at index idxs[t] and 0 elsewhere
OneHot(idxs, V) ==
    [dims |-> <<1, Len(idxs), V>>,
     data |-> [k \in 1..(Len(idxs) * V) |->
                 IF idxs[((k - 1) \div V) + 1] = (k - 1) % V THEN 1 ELSE 0]]

\* the score matrices session.run returns in the model of the hook
RunOutputs == { OneHot(<<1, 1, 0, 2>>, 4), OneHot(<<0, 0>>, 4) }

-----------------------------------------------------------------------------
(* useRapidOCR: init() *)

\* the messages of the errors fetch, response.text and InferenceSession.create
\* reject with
LoadErrors == {"Failed to fetch", "no available backend found"}

\* the messages of the errors session.run rejects with
RunErrors == {"failed to run inference"}

\* useEffect(() => { ... init(); }, []): the effect of the mount starts init,
\* which calls fetch(DICT_URL)
RunEffect ==
    /\ initPc = "mount"
    /\ initPc' = "fetchDict"
    /\ loadsStarted' = loadsStarted + 1
    /\ UNCHANGED <<session, charList, isLoading, error, dictText>>

\* await fetch(DICT_URL) resolves: response.text() is called
FetchDictResolves ==
    /\ initPc = "fetchDict"
    /\ initPc' = "readText"
    /\ UNCHANGED <<session, charList, isLoading, error, loadsStarted, dictText>>

\* await response.text() resolves: split, setCharList, set wasmPaths, and
\* InferenceSession.create(MODEL_URL) is called
ReadTextResolves(txt) ==
    /\ initPc = "readText"
    /\ dictText' = txt
    /\ charList' = MakeCharList(SplitLines(txt))
    /\ initPc' = "createSession"
    /\ UNCHANGED <<session, isLoading, error, loadsStarted>>

\* await InferenceSession.create resolves: setSession(sess); setIsLoading(false)
CreateSessionResolves ==
    /\ initPc = "createSession"
    /\ session' = "sess"
    /\ isLoading' = FALSE
    /\ initPc' = "done"
    /\ UNCHANGED <<charList, error, loadsStarted, dictText>>

\* mutant of InitCatch: the effect is run again after a failure (a retry)
InitCatchRetry(e) ==
    /\ initPc \in {"fetchDict", "readText", "createSession"}
    /\ error' = e
    /\ isLoading' = FALSE
    /\ initPc' = "mount"
    /\ UNCHANGED <<session, charList, loadsStarted, dictText>>

\* mutant of InitCatch: setIsLoading(false) is missing
InitCatchStillLoading(e) ==
    /\ initPc \in {"fetchDict", "readText", "createSession"}
    /\ error' = e
    /\ initPc' = "failed"
    /\ UNCHANGED <<session, charList, isLoading, loadsStarted, dictText>>

\* mutant of InitCatch: setError is missing
InitCatchNoError(e) ==
    /\ initPc \in {"fetchDict", "readText", "createSession"}
    /\ isLoading' = FALSE
    /\ initPc' = "failed"
    /\ UNCHANGED <<session, charList, error, loadsStarted, dictText>>

\* one of the three awaits rejects with an Error of message e:
\* catch (e) { setError(e.message); setIsLoading(false); }
InitCatch(e) ==
    /\ initPc \in {"fetchDict", "readText", "createSession"}
    /\ error' = e
    /\ isLoading' = FALSE
    /\ initPc' = "failed"
    /\ UNCHANGED <<session, charList, loadsStarted, dictText>>

-----------------------------------------------------------------------------
(* useRapidOCR: processImage *)

\* no score matrix (yet)
NoOutput == [dims |-> <<1, 0, 0>>, data |-> <<>>]

\* no error was thrown inside the call (yet)
NoFault == [kind |-> "none", error |-> ""]

\* the state of the hook when a call is made (kept with the call, for the claims)
Live == [session |-> session, isLoading |-> isLoading, error |-> error]

\* mutant of processImage: the guard on session is missing
processImageNoGuard(by, sess, cl) ==
    [by |-> by, session |-> sess, charList |-> cl, live |-> Live,
     pc |-> "imgLoading", reason |-> "", text |-> <<>>,
          output |-> NoOutput, validation |-> "none", fault |-> NoFault,
     image |-> TRUE, canvas |-> FALSE, tensor |-> FALSE, ran |-> FALSE]

\* mutant of processImage: a call on a failed pipeline is rejected with the
\* error of the failed load
processImageLoadError(by, sess, cl) ==
    IF sess = NULL
    THEN [by |-> by, session |-> sess, charList |-> cl, live |-> Live,
          pc |-> "rejected",
          reason |-> IF error # NULL THEN error ELSE "Model not loaded",
          text |-> <<>>,
          output |-> NoOutput, validation |-> "none", fault |-> NoFault,
          image |-> FALSE, canvas |-> FALSE, tensor |-> FALSE, ran |-> FALSE]
    ELSE [by |-> by, session |-> sess, charList |-> cl, live |-> Live,
          pc |-> "imgLoading", reason |-> "", text |-> <<>>,
          output |-> NoOutput, validation |-> "none", fault |-> NoFault,
          image |-> TRUE, canvas |-> FALSE, tensor |-> FALSE, ran |-> FALSE]

\* the synchronous part of processImage(blob) of a render whose session and
\* charList are sess and cl: if (!session) throw new Error("Model not loaded");
\* otherwise new Image(), its handlers, img.src = URL.createObjectURL(blob).
\* The value is the record of the call: image, canvas, tensor and ran say
\* whether an Image, a canvas, the tensor were created and session.run called;
\* output is the score matrix session.run returned to it, validation the state
\* of its validateWithServer, fault the error thrown or signalled inside it.
processImage(by, sess, cl) ==
    IF sess = NULL
    THEN [by |-> by, session |-> sess, charList |-> cl, live |-> Live,
          pc |-> "rejected", reason |-> "Model not loaded", text |-> <<>>,
          output |-> NoOutput, validation |-> "none", fault |-> NoFault,
          image |-> FALSE, canvas |-> FALSE, tensor |-> FALSE, ran |-> FALSE]
    ELSE [by |-> by, session |-> sess, charList |-> cl, live |-> Live,
          pc |-> "imgLoading", reason |-> "", text |-> <<>>,
          output |-> NoOutput, validation |-> "none", fault |-> NoFault,
          image |-> TRUE, canvas |-> FALSE, tensor |-> FALSE, ran |-> FALSE]

-----------------------------------------------------------------------------
(* The cards of useKanjiData, as KanjiPage and KanjiOverlay read them *)

\* the entry built from the values of a line: kanji is values[0] || '', the
\* other nine fields are computed from values[1] .. values[9]
KanjiEntry(values) == [kanji |-> values[1], values |-> values]

\* String.prototype.toLowerCase, on the letters of the model
ToLowerCase(str) ==
    [i \in 1..Len(str) |->
        CASE str[i] = "A" -> "a" [] str[i] = "B" -> "b" [] str[i] = "C" -> "c"
          [] OTHER -> str[i]]

\* str.split('; ')
RECURSIVE SplitOnSemicolonSpace(_, _, _)
SplitOnSemicolonSpace(str, cur, acc) ==
    IF str = <<>> THEN Append(acc, cur)
    ELSE IF Len(str) >= 2 /\ str[1] = ";" /\ str[2] = " "
         THEN SplitOnSemicolonSpace(SubSeq(str, 3, Len(str)), <<>>, Append(acc, cur))
         ELSE SplitOnSemicolonSpace(Tail(str), Append(cur, Head(str)), acc)

\* components: values[5] ? values[5].split('; ').filter(Boolean) : []
Components(entry) ==
    IF Len(entry.values) >= 6 /\ entry.values[6] # <<>>
    THEN SelectSeq(SplitOnSemicolonSpace(entry.values[6], <<>>, <<>>),
                   LAMBDA c : c # <<>>)
    ELSE <<>>

\* keyword_6th_ed: values[4] || ''
Keyword6thEd(entry) ==
    IF Len(entry.values) >= 5 THEN entry.values[5] ELSE <<>>

\* the lines of the cards the card lists are drawn from: kanji, two ids, two
\* keywords and the components
CardValues ==
    << << <<"A">>, <<"1">>, <<"1">>, <<"a">>, <<"a">>, <<"B">> >>,
       << <<"B">>, <<"2">>, <<"2">>, <<"b">>, <<"b">>, <<"a", ";", " ", "c">> >>,
       << <<"C">>, <<"3">>, <<"3">>, <<"c">>, <<"c">>, <<"B">> >> >>

\* the list of the first n cards, the lines being repeated after the last
CardList(n) ==
    [i \in 1..n |-> KanjiEntry(CardValues[((i - 1) % Len(CardValues)) + 1])]

CardLists == { CardList(n) : n \in 1..MaxCards }

\* kanjiData[currentIndex]
currentKanji == kanjiData[currentIndex + 1]

\* kanjiData.findIndex(k => k.components.some(c => c.toLowerCase() ===
\* component.toLowerCase()) || k.keyword_6th_ed.toLowerCase() ===
\* component.toLowerCase()): an index from 0, or -1
FindIndex(data, component) ==
    LET hit(k) ==
            \/ \E j \in 1..Len(Components(data[k])) :
                  ToLowerCase(Components(data[k])[j]) = ToLowerCase(component)
            \/ ToLowerCase(Keyword6thEd(data[k])) = ToLowerCase(component)
        hits == {k \in 1..Len(data) : hit(k)}
    IN  IF hits = {} THEN -1
        ELSE (CHOOSE k \in hits : \A h \in hits : k <= h) - 1

-----------------------------------------------------------------------------
(* KanjiPage and KanjiOverlay: the card shown *)

\* handleSkip: resetScene, setOcrStatus(""), setCurrentIndex(prev => (prev +
\* 1) % kanjiData.length)
HandleSkip ==
    /\ mounted = "KanjiPage"
    /\ ocrStatus' = <<"", "">>
    /\ currentIndex' = (currentIndex + 1) % Len(kanjiData)
    /\ UNCHANGED <<mounted, ocrResult, isChecking, hearts, timers, restVars,
                   checks, calls>>

\* the callback of setTimeout(..., 1000) of a correct check: the timers have
\* the same delay, so the oldest fires first; resetScene, setOcrStatus(""),
\* setCurrentIndex(prev => (prev + 1) % kanjiData.length)
AdvanceTimer ==
    /\ timers # <<>>
    /\ ocrStatus' = <<"", "">>
    /\ currentIndex' = (currentIndex + 1) % Len(kanjiData)
    /\ timers' = Tail(timers)
    /\ UNCHANGED <<mounted, ocrResult, isChecking, hearts, restVars, checks,
                   calls>>

\* KanjiOverlay.handleNext
HandleNext ==
    /\ mounted = "KanjiOverlay"
    /\ currentIndex' = (currentIndex + 1) % Len(kanjiData)
    /\ UNCHANGED <<mounted, ocrStatus, ocrResult, isChecking, hearts, timers,
                   restVars, checks, calls>>

\* mutant of HandlePrev: no wrap from the first card
HandlePrevNoWrap ==
    /\ mounted = "KanjiOverlay"
    /\ currentIndex' = currentIndex - 1
    /\ UNCHANGED <<mounted, ocrStatus, ocrResult, isChecking, hearts, timers,
                   restVars, checks, calls>>

\* KanjiOverlay.handlePrev
HandlePrev ==
    /\ mounted = "KanjiOverlay"
    /\ currentIndex' = IF currentIndex = 0 THEN Len(kanjiData) - 1
                       ELSE currentIndex - 1
    /\ UNCHANGED <<mounted, ocrStatus, ocrResult, isChecking, hearts, timers,
                   restVars, checks, calls>>

\* KanjiOverlay.navigateToComponent, from one of the chips of the card shown
\* (currentKanji.components.slice(0, 6))
NavigateToComponent(component) ==
    /\ mounted = "KanjiOverlay"
    /\ \E j \in 1..Len(Components(currentKanji)) :
          j <= 6 /\ Components(currentKanji)[j] = component
    /\ LET targetIndex == FindIndex(kanjiData, component)
       IN  currentIndex' = IF targetIndex # -1 THEN targetIndex ELSE currentIndex
    /\ UNCHANGED <<mounted, ocrStatus, ocrResult, isChecking, hearts, timers,
                   restVars, checks, calls>>

-----------------------------------------------------------------------------
(* KanjiPage.handleCheck and KanjiOverlay.checkDrawing *)

\* currentKanji.kanji of the cards
Kanji == { <<"A">>, <<"B">>, <<"C">> }

\* Math.max
Max(a, b) == IF a >= b THEN a ELSE b

\* String.prototype.includes
Includes(str, sub) ==
    \E i \in 1..(Len(str) - Len(sub) + 1) : SubSeq(str, i, i + Len(sub) - 1) = sub

\* the closure of a handler created by the latest render
NewCheck(by, kanji) ==
    [by |-> by, pc |-> "exporting", kanji |-> kanji, index |-> currentIndex,
     call |-> 0,
     isOCRLoading |-> isLoading, session |-> session, charList |-> charList]

\* handleCheck, scene without elements: setOcrStatus("Draw the kanji first!")
HandleCheckEmptyScene ==
    /\ mounted = "KanjiPage" /\ ~isChecking
    /\ ocrStatus' = <<"Draw the kanji first!", "">>
    /\ UNCHANGED <<mounted, pageVars, restVars, ocrResult, isChecking, checks, calls>>

\* handleCheck up to await exportToBlob: setIsChecking(true),
\* setOcrStatus("Checking..."); the CHECK button is disabled while isChecking
HandleCheckClick(kanji) ==
    /\ mounted = "KanjiPage" /\ ~isChecking
    /\ kanji = currentKanji.kanji
    /\ Len(checks) + Cardinality({c \in 1..Len(calls) : calls[c].by = "direct"})
          < MaxInvocations
    /\ isChecking' = TRUE
    /\ ocrStatus' = <<"Checking...", "">>
    /\ checks' = Append(checks, NewCheck("KanjiPage", kanji))
    /\ UNCHANGED <<mounted, pageVars, restVars, ocrResult, calls>>

\* await exportToBlob resolves: if (isOCRLoading) report and return (finally
\* clears isChecking), else await processImage(blob); a call that throws at
\* once is caught: setOcrStatus("Error: " + error.message)
HandleCheckExported(k) ==
    /\ checks[k].by = "KanjiPage" /\ checks[k].pc = "exporting"
    /\ IF checks[k].isOCRLoading
       THEN /\ ocrStatus' = <<"Loading model...", "">>
            /\ isChecking' = FALSE
            /\ checks' = [checks EXCEPT ![k].pc = "done"]
            /\ UNCHANGED calls
       ELSE LET call == processImage("KanjiPage", checks[k].session, checks[k].charList)
            IN  /\ calls' = Append(calls, call)
                /\ IF call.pc = "rejected"
                   THEN /\ ocrStatus' = <<"Error: ", call.reason>>
                        /\ isChecking' = FALSE
                        /\ checks' = [checks EXCEPT ![k].pc = "done",
                                                     ![k].call = Len(calls) + 1]
                   ELSE /\ checks' = [checks EXCEPT ![k].pc = "awaitOCR",
                                                     ![k].call = Len(calls) + 1]
                        /\ UNCHANGED <<ocrStatus, isChecking>>
    /\ UNCHANGED <<mounted, pageVars, restVars, ocrResult>>

\* mutant of HandleCheckSettled: setHearts(prev => prev - 1)
HandleCheckSettledNoFloor(k, call) ==
    /\ ocrStatus' =
          IF call.pc = "rejected" THEN <<"Error: ", call.reason>>
          ELSE IF Includes(call.text, checks[k].kanji) THEN <<"Correct!", "">>
          ELSE <<"Try again!", "">>
    /\ timers' =
          IF call.pc = "resolved" /\ Includes(call.text, checks[k].kanji)
          THEN Append(timers, [checked |-> checks[k].index])
          ELSE timers
    /\ hearts' =
          IF call.pc = "resolved" /\ ~Includes(call.text, checks[k].kanji)
          THEN hearts - 1
          ELSE hearts
    /\ isChecking' = FALSE
    /\ checks' = [checks EXCEPT ![k].pc = "done"]
    /\ UNCHANGED <<mounted, currentIndex, restVars, ocrResult>>

\* await processImage settles with the call as given: "Correct!" and
\* setTimeout(advance, 1000) when the result includes the kanji, "Try again!"
\* and setHearts(prev => Math.max(0, prev - 1)) otherwise, "Error: ..." on a
\* rejection; finally setIsChecking(false).  A timer remembers the card that
\* was checked (for the claims).
HandleCheckSettled(k, call) ==
    /\ ocrStatus' =
          IF call.pc = "rejected" THEN <<"Error: ", call.reason>>
          ELSE IF Includes(call.text, checks[k].kanji) THEN <<"Correct!", "">>
          ELSE <<"Try again!", "">>
    /\ timers' =
          IF call.pc = "resolved" /\ Includes(call.text, checks[k].kanji)
          THEN Append(timers, [checked |-> checks[k].index])
          ELSE timers
    /\ hearts' =
          IF call.pc = "resolved" /\ ~Includes(call.text, checks[k].kanji)
          THEN Max(0, hearts - 1)
          ELSE hearts
    /\ isChecking' = FALSE
    /\ checks' = [checks EXCEPT ![k].pc = "done"]
    /\ UNCHANGED <<mounted, currentIndex, restVars, ocrResult>>

\* checkDrawing, scene without elements
CheckDrawingEmptyScene ==
    /\ mounted = "KanjiOverlay"
    /\ ocrStatus' = <<"Please draw something first!", "">>
    /\ UNCHANGED <<mounted, pageVars, restVars, ocrResult, isChecking, checks, calls>>

\* checkDrawing up to await exportToBlob: setOcrStatus("Processing..."),
\* setOcrResult("")
CheckDrawingClick(kanji) ==
    /\ mounted = "KanjiOverlay"
    /\ kanji = currentKanji.kanji
    /\ Len(checks) + Cardinality({c \in 1..Len(calls) : calls[c].by = "direct"})
          < MaxInvocations
    /\ ocrStatus' = <<"Processing...", "">>
    /\ ocrResult' = <<>>
    /\ checks' = Append(checks, NewCheck("KanjiOverlay", kanji))
    /\ UNCHANGED <<mounted, pageVars, restVars, isChecking, calls>>

\* await exportToBlob resolves: if (isOCRLoading) report and return, else
\* await processImage(blob)
CheckDrawingExported(k) ==
    /\ checks[k].by = "KanjiOverlay" /\ checks[k].pc = "exporting"
    /\ IF checks[k].isOCRLoading
       THEN /\ ocrStatus' = <<"Model loading...", "">>
            /\ checks' = [checks EXCEPT ![k].pc = "done"]
            /\ UNCHANGED calls
       ELSE LET call == processImage("KanjiOverlay", checks[k].session, checks[k].charList)
            IN  /\ calls' = Append(calls, call)
                /\ IF call.pc = "rejected"
                   THEN /\ ocrStatus' = <<"Error: ", call.reason>>
                        /\ checks' = [checks EXCEPT ![k].pc = "done",
                                                     ![k].call = Len(calls) + 1]
                   ELSE /\ checks' = [checks EXCEPT ![k].pc = "awaitOCR",
                                                     ![k].call = Len(calls) + 1]
                        /\ UNCHANGED ocrStatus
    /\ UNCHANGED <<mounted, pageVars, restVars, ocrResult, isChecking>>

\* await processImage settles with the call as given: setOcrResult(result)
\* and "Correct!" or "Incorrect. Expected: ...", or "Error: ..." on a rejection
CheckDrawingSettled(k, call) ==
    /\ ocrStatus' =
          IF call.pc = "rejected" THEN <<"Error: ", call.reason>>
          ELSE IF Includes(call.text, checks[k].kanji) THEN <<"Correct!", "">>
          ELSE <<"Incorrect. Expected: ", checks[k].kanji[1]>>
    /\ ocrResult' = IF call.pc = "resolved" THEN call.text ELSE ocrResult
    /\ checks' = [checks EXCEPT ![k].pc = "done"]
    /\ UNCHANGED <<mounted, pageVars, restVars, isChecking>>

\* await exportToBlob rejects with an Error: the catch of either handler
ExportRejects(k) ==
    /\ checks[k].pc = "exporting"
    /\ ocrStatus' = <<"Error: ", "export failed">>
    /\ isChecking' = FALSE
    /\ checks' = [checks EXCEPT ![k].pc = "done"]
    /\ UNCHANGED <<mounted, pageVars, restVars, ocrResult, calls>>


\* the promise of call c settles as the record call: the handler awaiting it,
\* if any, resumes in the same task (its continuation is a microtask)
Settle(c, call) ==
    /\ calls' = [calls EXCEPT ![c] = call]
    /\ IF \E k \in 1..Len(checks) : checks[k].call = c
       THEN LET k == CHOOSE k \in 1..Len(checks) : checks[k].call = c
            IN  IF checks[k].by = "KanjiPage"
                THEN HandleCheckSettled(k, call)
                ELSE CheckDrawingSettled(k, call)
       ELSE UNCHANGED <<uiVars, checks>>

\* img.onload up to await session.run(feeds): the canvas and its context, the
\* tensor, and the call of session.run
ImgOnload(c) ==
    /\ calls[c].pc = "imgLoading"
    /\ calls' = [calls EXCEPT ![c].canvas = TRUE, ![c].tensor = TRUE,
                              ![c].ran = TRUE, ![c].pc = "running"]
    /\ UNCHANGED <<uiVars, checks>>

\* mutant of ImgOnloadNoContext: the context is tested only after the tensor
\* was built and session.run was called
ImgOnloadNoContextLate(c) ==
    /\ calls[c].pc = "imgLoading"
    /\ Settle(c, [calls[c] EXCEPT !.canvas = TRUE, !.tensor = TRUE, !.ran = TRUE,
                                  !.pc = "rejected",
                                  !.reason = "Could not get canvas context",
                                  !.fault = [kind |-> "render",
                                             error |-> "Could not get canvas context"]])

\* img.onload when getContext('2d') returns null: the throw is caught, reject(e)
ImgOnloadNoContext(c) ==
    /\ calls[c].pc = "imgLoading"
    /\ Settle(c, [calls[c] EXCEPT !.canvas = TRUE, !.pc = "rejected",
                                  !.reason = "Could not get canvas context",
                                  !.fault = [kind |-> "render",
                                             error |-> "Could not get canvas context"]])

\* img.onerror = reject: the promise is rejected with the error event, which
\* has no message
ImgOnerror(c) ==
    /\ calls[c].pc = "imgLoading"
    /\ Settle(c, [calls[c] EXCEPT !.pc = "rejected", !.reason = "undefined",
                                  !.fault = [kind |-> "image", error |-> "undefined"]])

\* mutant of RunResolves: ctcDecode changes the vocabulary in place
\* (charList.shift() drops the blank marker)
RunResolvesInPlace(c, out) ==
    /\ calls[c].pc = "running"
    /\ Settle(c, [calls[c] EXCEPT !.pc = "resolved", !.output = out,
                                  !.validation = "pending",
                                  !.text = ctcDecode(out, calls[c].charList)])
    /\ charList' = Tail(charList)
    /\ UNCHANGED <<session, isLoading, error, initPc, loadsStarted, dictText>>

\* mutant of RunResolves: the score matrix is kept in a variable shared by the
\* calls, so a call decodes the matrix of the call that resolved before it
RunResolvesSharedOutput(c, out) ==
    /\ calls[c].pc = "running"
    /\ LET done   == {d \in 1..Len(calls) : calls[d].pc = "resolved"}
           shared == IF done = {} THEN out
                     ELSE calls[CHOOSE d \in done : TRUE].output
       IN  Settle(c, [calls[c] EXCEPT !.pc = "resolved", !.output = out,
                                      !.validation = "pending",
                                      !.text = ctcDecode(shared, calls[c].charList)])
    /\ UNCHANGED hookVars

\* await session.run resolves with out: ctcDecode(output, charList),
\* validateWithServer(blob) is started (its fetch is in flight), resolve(text).
\* ctcDecode reads output and charList and writes its own locals only; nothing
\* here writes the state of the hook.
RunResolves(c, out) ==
    /\ calls[c].pc = "running"
    /\ Settle(c, [calls[c] EXCEPT !.pc = "resolved", !.output = out,
                                  !.validation = "pending",
                                  !.text = ctcDecode(out, calls[c].charList)])
    /\ UNCHANGED hookVars

\* await session.run resolves with results that hold no tensor under
\* outputNames[0]: ctcDecode throws reading output.dims, the catch rejects
RunResolvesUndecodable(c) ==
    /\ calls[c].pc = "running"
    /\ Settle(c, [calls[c] EXCEPT !.pc = "rejected",
                                  !.reason = "Cannot read properties of undefined",
                                  !.fault = [kind |-> "decode",
                                             error |-> "Cannot read properties of undefined"]])

\* mutant of RunRejects: the catch returns '' instead of rejecting
RunRejectsSwallowed(c, e) ==
    /\ calls[c].pc = "running"
    /\ Settle(c, [calls[c] EXCEPT !.pc = "resolved", !.text = <<>>,
                                  !.fault = [kind |-> "inference", error |-> e]])

\* mutant of RunRejects: the catch neither rejects nor resolves
RunRejectsNeverSettles(c, e) ==
    /\ calls[c].pc = "running"
    /\ calls' = [calls EXCEPT ![c].pc = "caught",
                              ![c].fault = [kind |-> "inference", error |-> e]]
    /\ UNCHANGED <<uiVars, checks>>

\* await session.run rejects with an Error of message e: reject(e)
RunRejects(c, e) ==
    /\ calls[c].pc = "running"
    /\ Settle(c, [calls[c] EXCEPT !.pc = "rejected", !.reason = e,
                                  !.fault = [kind |-> "inference", error |-> e]])

\* validateWithServer: the server answers with an OK status and JSON; the
\* then-callback logs the client text and the server text
ValidateResponds(c) ==
    /\ calls[c].validation = "pending"
    /\ calls' = [calls EXCEPT ![c].validation = "logged"]
    /\ UNCHANGED <<uiVars, checks>>

\* mutant of ValidateFails: the failure of the validation rejects the call
ValidateFailsRejects(c) ==
    /\ calls[c].validation = "pending"
    /\ calls' = [calls EXCEPT ![c].validation = "null", ![c].pc = "rejected",
                              ![c].reason = "Server returned 500"]
    /\ UNCHANGED <<uiVars, checks>>

\* validateWithServer: fetch rejects or the status is not OK; the catch warns
\* and returns null, the then-callback logs undefined as the server text
ValidateFails(c) ==
    /\ calls[c].validation = "pending"
    /\ calls' = [calls EXCEPT ![c].validation = "null"]
    /\ UNCHANGED <<uiVars, checks>>

\* processImage of the latest render called by another consumer of the hook
ProcessImageDirect ==
    /\ initPc # "unused"
    /\ Len(checks) + Cardinality({c \in 1..Len(calls) : calls[c].by = "direct"})
          < MaxInvocations
    /\ calls' = Append(calls, processImage("direct", session, charList))
    /\ UNCHANGED <<uiVars, checks>>

-----------------------------------------------------------------------------
(* Pre-processing in img.onload: resize, draw on the canvas, build the tensor *)

targetHeight == 48
maxTargetWidth == 320

\* the 255.0 of the normalization
PixelMax == 255

\* Math.ceil of the quotient a / b of two positive integers
CeilDiv(a, b) == (a + b - 1) \div b

\* mutant of ResizedWidth: Math.floor in place of Math.ceil
ResizedWidthFloor(w, h) ==
    LET r == (targetHeight * w) \div h
    IN  IF r > maxTargetWidth THEN maxTargetWidth ELSE r

\* ratio = img.width / img.height; resizedWidth = Math.ceil(targetHeight * ratio),
\* clamped to maxTargetWidth.  The source computes in IEEE doubles:
\* fl(48 * fl(w / h)).  When h divides 48 * w the product is exact, since
\* 48 = 2^5 + 2^4 (a quotient by such a divisor multiplies back exactly);
\* otherwise 48 * w / h is at least 1 / h away from an integer, far more than
\* the rounding error for image dimensions.  So the double result and the
\* exact quotient have the same ceiling.
ResizedWidth(w, h) ==
    LET r == CeilDiv(targetHeight * w, h)
    IN  IF r > maxTargetWidth THEN maxTargetWidth ELSE r

\* ctx.fillStyle = '#000000': the RGBA value fillRect writes
fillStyle == <<0, 0, 0, 255>>

\* the RGBA value of source pixel (sx, sy) of an image of the given kind
SourcePixel(kind, sx, sy) ==
    CASE kind = "white"       -> <<255, 255, 255, 255>>
      [] kind = "ink"         -> IF (sx + sy) % 2 = 0 THEN <<0, 0, 0, 255>>
                                 ELSE <<255, 255, 255, 255>>
      [] kind = "tinted"      -> <<255, 128, 1, 255>>
      [] kind = "transparent" -> <<255, 255, 255, 0>>
      [] kind = "ramp"        -> <<(40 * sx + 7 * sy) % 256, (200 + 13 * sx) % 256,
                                   (90 * sy + 3) % 256, 255>>

\* source-over compositing of a pixel that is opaque or fully transparent
Over(src, dst) == IF src[4] = 255 THEN src ELSE dst

\* mutant of CanvasPixel: the image is stretched over the whole canvas width
CanvasPixelFullWidth(im, rw, x, y) ==
    Over(SourcePixel(im.kind, (x * im.width) \div maxTargetWidth,
                     (y * im.height) \div targetHeight), fillStyle)

\* canvas pixel (x, y) after fillRect(0, 0, 320, 48) and
\* drawImage(img, 0, 0, resizedWidth, targetHeight): the image covers columns
\* [0, resizedWidth), scaled (sampled at the nearest source pixel)
CanvasPixel(im, rw, x, y) ==
    IF x < rw
    THEN Over(SourcePixel(im.kind, (x * im.width) \div rw,
                          (y * im.height) \div targetHeight), fillStyle)
    ELSE fillStyle

\* imageData.data of getImageData(0, 0, 320, 48): RGBA, row-major
Pixels(im, rw) ==
    [k \in 1..(4 * targetHeight * maxTargetWidth) |->
        LET p == (k - 1) \div 4
        IN  CanvasPixel(im, rw, p % maxTargetWidth, p \div maxTargetWidth)[((k - 1) % 4) + 1]]

\* mutant of Normalize: the centring is missing, pixel / 255.0 is stored
NormalizeNoCenter(pixel) == pixel

\* (pixel / 255.0 - 0.5) / 0.5 = (2 * pixel - 255) / 255, kept as its
\* numerator over 255: -255 stands for -1.0, 255 for 1.0 (both exact in
\* float32; the other values are stored rounded to the nearest float32)
Normalize(pixel) == 2 * pixel - PixelMax

\* the block of float32Data the loop writes for channel c (0: R, 1: G, 2: B):
\* float32Data[i + c * 48 * 320] = normalized pixels[i * 4 + c]
ChannelBlock(pixels, c) ==
    [k \in 1..(targetHeight * maxTargetWidth) |->
        Normalize(pixels[(k - 1) * 4 + c + 1])]

\* mutant of Float32Data: the three channels of a pixel are stored next to
\* each other (float32Data[i * 3 + c])
Float32DataInterleaved(pixels) ==
    [k \in 1..(3 * targetHeight * maxTargetWidth) |->
        Normalize(pixels[((k - 1) \div 3) * 4 + ((k - 1) % 3) + 1])]

\* float32Data after the loop over i = 0 .. 48*320 - 1: the loop writes
\* elements i, i + 48*320 and i + 2*48*320 of the new Float32Array(3*48*320),
\* that is the R block, then the G block, then the B block
Float32Data(pixels) ==
    ChannelBlock(pixels, 0) \o ChannelBlock(pixels, 1) \o ChannelBlock(pixels, 2)

-----------------------------------------------------------------------------
(* Values of the variables a specification does not use *)

NoImage  == [width |-> 0, height |-> 0, kind |-> "none"]

HookUnused ==
    /\ session = NULL /\ isLoading = TRUE /\ error = NULL
    /\ initPc = "unused" /\ loadsStarted = 0 /\ dictText = <<>>

PageUnused == currentIndex = 0 /\ hearts = 0 /\ timers = <<>>

NoStart == [x |-> 0, y |-> 0, width |-> 0, height |-> 0, posX |-> 0, posY |-> 0]

PanelUnused ==
    /\ panel = "none" /\ isDragging = FALSE /\ isResizing = FALSE
    /\ resizeHandle = <<>> /\ dragOffset = NoStart /\ resizeStart = NoStart
    /\ dragStartRef = NoStart /\ resizeStartRef = NoStart /\ events = 0

StrokeUnused ==
    /\ kanjiProp = <<>> /\ svgContent = <<>> /\ svgError = FALSE
    /\ isPlaying = FALSE /\ fetches = <<>>

RestUnused == PanelUnused /\ StrokeUnused

UiUnused ==
    /\ mounted = "none" /\ ocrStatus = <<"", "">> /\ ocrResult = <<>>
    /\ isChecking = FALSE /\ checks = <<>> /\ calls = <<>>
    /\ PageUnused /\ RestUnused

DecodeUnused ==
    /\ output = NoOutput /\ predIndices = <<>> /\ charIndices = <<>>
    /\ text = <<>> /\ decodePhase = "unused"

NormUnused ==
    /\ img = NoImage /\ resizedWidth = 0 /\ float32Data = <<>>
    /\ normPhase = "unused"

ParseUnused ==
    /\ csvLine = <<>> /\ csvValues = <<>> /\ parsePhase = "unused"

CsvUnused ==
    /\ csvText = <<>> /\ kanjiData = <<>> /\ csvIsLoading = TRUE
    /\ csvError = NULL /\ csvPc = "unused"

NoScene == [elements |-> <<>>, zoom |-> 1, scrollX |-> 0, scrollY |-> 0,
            left |-> 0, top |-> 0, hasContainer |-> FALSE]

LensUnused ==
    /\ position = [x |-> 0, y |-> 0]
    /\ size = [width |-> 0, height |-> 0]
    /\ isOCRProcessing = FALSE /\ scene = NoScene
    /\ captureElements = <<>> /\ ocrElements = <<>> /\ ocrPc = "unused"

DataUnused == ParseUnused /\ CsvUnused /\ LensUnused

\* useKanjiData has loaded the cards: the component shows the first card
CardsLoaded(cards) ==
    /\ csvText = <<>> /\ kanjiData = cards /\ csvIsLoading = FALSE
    /\ csvError = NULL /\ csvPc = "loaded"

-----------------------------------------------------------------------------
(* Spec: a component (KanjiPage or KanjiOverlay) with its useRapidOCR hook *)

Init ==
    /\ session = NULL /\ charList = <<>> /\ isLoading = TRUE /\ error = NULL
    /\ initPc = "mount" /\ loadsStarted = 0 /\ dictText = <<>>
    /\ mounted \in {"KanjiPage", "KanjiOverlay"}
    /\ ocrStatus = <<"", "">> /\ ocrResult = <<>> /\ isChecking = FALSE
    /\ checks = <<>> /\ calls = <<>>
    /\ currentIndex = 0 /\ hearts = (IF mounted = "KanjiPage" THEN 5 ELSE 0)
    /\ timers = <<>>
    /\ RestUnused
    /\ DecodeUnused /\ NormUnused /\ ParseUnused /\ LensUnused
    /\ CardsLoaded(CardList(1))

otherThanHook == <<uiVars, checks, calls, decodeVars, normVars, dataVars>>
otherThanUi == <<hookVars, decodeVars, normVars, dataVars>>

Next ==
    \/ RunEffect /\ UNCHANGED otherThanHook
    \/ FetchDictResolves /\ UNCHANGED otherThanHook
    \/ \E txt \in DictTexts : ReadTextResolves(txt) /\ UNCHANGED otherThanHook
    \/ CreateSessionResolves /\ UNCHANGED otherThanHook
    \/ \E e \in LoadErrors : InitCatch(e) /\ UNCHANGED otherThanHook
    \/ \E c \in 1..Len(calls) : ImgOnload(c) /\ UNCHANGED otherThanUi
    \/ \E c \in 1..Len(calls) : ImgOnloadNoContext(c) /\ UNCHANGED otherThanUi
    \/ \E c \in 1..Len(calls) : ImgOnerror(c) /\ UNCHANGED otherThanUi
    \/ \E c \in 1..Len(calls) : \E out \in RunOutputs :
          RunResolves(c, out) /\ UNCHANGED <<decodeVars, normVars, dataVars>>
    \/ \E c \in 1..Len(calls) : RunResolvesUndecodable(c) /\ UNCHANGED otherThanUi
    \/ \E c \in 1..Len(calls) : ValidateResponds(c) /\ UNCHANGED otherThanUi
    \/ \E c \in 1..Len(calls) : ValidateFails(c) /\ UNCHANGED otherThanUi
    \/ \E c \in 1..Len(calls) : \E e \in RunErrors :
          RunRejects(c, e) /\ UNCHANGED otherThanUi
    \/ ProcessImageDirect /\ UNCHANGED otherThanUi
    \/ HandleCheckEmptyScene /\ UNCHANGED otherThanUi
    \/ \E kanji \in Kanji : HandleCheckClick(kanji) /\ UNCHANGED otherThanUi
    \/ \E k \in 1..Len(checks) : HandleCheckExported(k) /\ UNCHANGED otherThanUi
    \/ CheckDrawingEmptyScene /\ UNCHANGED otherThanUi
    \/ \E kanji \in Kanji : CheckDrawingClick(kanji) /\ UNCHANGED otherThanUi
    \/ \E k \in 1..Len(checks) : CheckDrawingExported(k) /\ UNCHANGED otherThanUi
    \/ \E k \in 1..Len(checks) : ExportRejects(k) /\ UNCHANGED otherThanUi
    \/ HandleSkip /\ UNCHANGED otherThanUi
    \/ AdvanceTimer /\ UNCHANGED otherThanUi
    \/ HandleNext /\ UNCHANGED otherThanUi
    \/ HandlePrev /\ UNCHANGED otherThanUi
    \/ \E component \in {<<"a">>, <<"B">>, <<"c">>} :
          NavigateToComponent(component) /\ UNCHANGED otherThanUi

Spec == Init /\ [][Next]_vars

\* the steps of call c that the browser takes on its own: the image load
\* finishes (onload or onerror) and session.run finishes (resolves or rejects)
CallStep(c) ==
    /\ c \in 1..Len(calls)
    /\ \/ ImgOnload(c) /\ UNCHANGED otherThanUi
       \/ ImgOnloadNoContext(c) /\ UNCHANGED otherThanUi
       \/ ImgOnerror(c) /\ UNCHANGED otherThanUi
       \/ \E out \in RunOutputs : RunResolves(c, out) /\ UNCHANGED <<decodeVars, normVars, dataVars>>
       \/ RunResolvesUndecodable(c) /\ UNCHANGED otherThanUi
       \/ \E e \in RunErrors : RunRejects(c, e) /\ UNCHANGED otherThanUi

\* Spec where the image load and the inference of every call finish
SpecLive == Spec /\ \A c \in 1..MaxInvocations : WF_vars(CallStep(c))

-----------------------------------------------------------------------------
(* Claims about the hook and its callers *)

NoWork(call) == ~call.image /\ ~call.canvas /\ ~call.tensor /\ ~call.ran

\* C4: a processImage call made while the session is not loaded is rejected
\* with the not-loaded error and does no work: no Image, no canvas, no
\* tensor, and session.run is not called.
C4_NotReadyRejectsWithoutWork ==
    \A c \in 1..Len(calls) :
        calls[c].live.session = NULL =>
            /\ calls[c].pc = "rejected"
            /\ calls[c].reason = "Model not loaded"
            /\ NoWork(calls[c])

C4_Witness ==
    \E c \in 1..Len(calls) :
        /\ calls[c].live.session = NULL /\ calls[c].live.isLoading
        /\ calls[c].pc = "rejected"
        /\ session # NULL

\* C5 as stated: after a failed load every processImage call is rejected with
\* the error the failed load recorded.
C5_RejectsWithLoadError ==
    \A c \in 1..Len(calls) :
        calls[c].live.error # NULL =>
            /\ calls[c].pc = "rejected"
            /\ calls[c].reason = calls[c].live.error

\* C5 (amended): a failed load leaves the pipeline failed (isLoading false,
\* error the message of the load error, session null, the load not started
\* again), and every later processImage call is rejected at once, without
\* work, with "Model not loaded"; the load error stays in the error state.
C5_FailedLoadFailsFast ==
    /\ initPc = "failed" =>
          /\ error \in LoadErrors /\ ~isLoading /\ session = NULL
          /\ loadsStarted = 1
    /\ \A c \in 1..Len(calls) :
          calls[c].live.error # NULL =>
              /\ calls[c].pc = "rejected"
              /\ calls[c].reason = "Model not loaded"
              /\ NoWork(calls[c])
              /\ error = calls[c].live.error

C5_Witness ==
    /\ initPc = "failed" /\ error = "Failed to fetch"
    /\ \E c \in 1..Len(calls) :
          /\ calls[c].by = "KanjiPage"
          /\ calls[c].live.error = "Failed to fetch"
          /\ calls[c].reason = "Model not loaded"
    /\ ocrStatus = <<"Error: ", "Model not loaded">>

\* C6: the lifecycle only goes loading -> ready or loading -> failed; the load
\* is started once; once isLoading is false, isLoading, error and session
\* never change and the load is not started again.
C6_LifecycleTerminal ==
    [][ /\ loadsStarted' \in {loadsStarted, loadsStarted + 1}
        /\ loadsStarted' <= 1
        /\ (initPc' # "mount" => loadsStarted' = 1)
        /\ (~isLoading =>
               /\ isLoading' = isLoading /\ error' = error /\ session' = session
               /\ loadsStarted' = loadsStarted /\ initPc' = initPc)
        /\ (isLoading /\ ~isLoading' =>
               \/ session' # NULL /\ error' = NULL /\ initPc' = "done"
               \/ session' = NULL /\ error' # NULL /\ initPc' = "failed")
        /\ (isLoading' => session' = NULL /\ error' = NULL)
      ]_vars

C6_Witness ==
    /\ ~isLoading /\ session # NULL /\ error = NULL /\ loadsStarted = 1
    /\ Len(calls) = 2
    /\ calls[1].pc = "resolved" /\ calls[2].pc = "rejected"

\* C7: whenever isLoading is false and error is null, the session and the
\* vocabulary are loaded; and whenever the load failed, error is not null.
C7_ReadinessConsistent ==
    /\ (~isLoading /\ error = NULL) =>
          /\ session # NULL
          /\ charList # <<>>
          /\ initPc = "done"
    /\ initPc = "failed" => error # NULL /\ error # ""

C7_Witness ==
    /\ ~isLoading /\ error = NULL /\ session = "sess"
    /\ charList = MakeCharList(<< <<"A">>, <<"B">> >>)

\* C8: KanjiPage.handleCheck and KanjiOverlay.checkDrawing never invoke
\* processImage while the session is null, also after a failed load.
C8_CallersNeverInvokeUnloaded ==
    \A c \in 1..Len(calls) :
        calls[c].by \in {"KanjiPage", "KanjiOverlay"} =>
            calls[c].session # NULL /\ calls[c].live.session # NULL

\* the symbols of a dictionary resource, one per line: the lines of the text,
\* where a line terminator at the very end does not start another line
DictSymbols(txt) ==
    LET pieces == SplitLines(txt)
    IN  IF pieces[Len(pieces)] = <<>>
        THEN SubSeq(pieces, 1, Len(pieces) - 1) ELSE pieces

\* C14: after the vocabulary load from a dictionary of N symbols (one per
\* line) the vocabulary has N + 2 entries: the blank marker at index 0, the
\* i-th symbol at index i, and the space symbol at index N + 1.
C14_VocabularyIsDictPlusTwo ==
    charList # <<>> =>
        LET syms == DictSymbols(dictText)
            N    == Len(syms)
        IN  /\ Len(charList) = N + 2
            /\ charList[1] = Str_blank
            /\ \A i \in 1..N : i + 1 <= Len(charList) /\ charList[i + 1] = syms[i]
            /\ charList[Len(charList)] = Str_space
            /\ N + 2 <= Len(charList) /\ charList[N + 2] = Str_space

\* C15: whenever the session is loaded (a call can reach the decoder), index
\* 0 of the vocabulary is the blank marker, also in the vocabulary a call
\* captured; and once the vocabulary is loaded no step changes it.
C15_VocabularyImmutable ==
    /\ [](session # NULL => charList # <<>> /\ charList[1] = Str_blank)
    /\ [](\A c \in 1..Len(calls) :
             calls[c].session # NULL =>
                 /\ calls[c].charList = charList
                 /\ calls[c].charList[1] = Str_blank)
    /\ [][charList # <<>> => charList' = charList]_vars

C15_Witness ==
    /\ session # NULL /\ initPc = "done"
    /\ Len(charList) = 5 /\ charList[1] = Str_blank
    /\ Len(calls) = 2
    /\ calls[1].pc = "resolved" /\ calls[2].pc = "rejected"
    /\ calls[2].session # NULL

Settled(c) == c <= Len(calls) /\ calls[c].pc \in {"resolved", "rejected"}

\* C21: the step in which a call decodes and resolves leaves session,
\* isLoading, error and the vocabulary (the hook's and the call's) unchanged
\* and touches no other call, its text is the decode of its own score matrix
\* over the unchanged vocabulary; and a call that has not yet loaded its image
\* holds nothing of earlier calls.
C21_DecodeHasNoSideEffects ==
    /\ [][\A c \in 1..Len(calls) :
            (calls[c].pc = "running" /\ calls'[c].pc = "resolved") =>
                /\ session' = session /\ isLoading' = isLoading /\ error' = error
                /\ charList' = charList
                /\ calls'[c].charList = calls[c].charList
                /\ calls'[c].session = calls[c].session
                /\ calls'[c].text = ctcDecode(calls'[c].output, charList')
                /\ \A d \in 1..Len(calls) : d # c => calls'[d] = calls[d]]_vars
    /\ [](\A c \in 1..Len(calls) :
            calls[c].pc = "imgLoading" =>
                /\ calls[c].text = <<>> /\ calls[c].output = NoOutput
                /\ ~calls[c].canvas /\ ~calls[c].tensor /\ ~calls[c].ran
                /\ calls[c].session = session /\ calls[c].charList = charList)

C21_Witness ==
    /\ Len(calls) = 2
    /\ calls[1].pc = "resolved" /\ calls[1].text = <<"A", "B">>
    /\ calls[2].pc = "imgLoading" /\ calls[2].text = <<>>
    /\ charList = MakeCharList(<< <<"A">>, <<"B">> >>)

\* C22: a call whose canvas context cannot be acquired is rejected with the
\* context error before session.run is called; session, vocabulary, isLoading
\* and error are as before.
C22_RenderErrorIsInvocationScoped ==
    /\ [](\A c \in 1..Len(calls) :
            calls[c].fault.kind = "render" =>
                /\ calls[c].pc = "rejected"
                /\ calls[c].reason = "Could not get canvas context"
                /\ ~calls[c].tensor /\ ~calls[c].ran
                /\ session # NULL /\ ~isLoading /\ error = NULL
                /\ charList = calls[c].charList)
    /\ [][\A c \in 1..Len(calls) :
            (calls[c].fault.kind = "none" /\ calls'[c].fault.kind = "render")
                => hookVars' = hookVars]_vars

C22_Witness ==
    /\ mounted = "KanjiPage" /\ Len(calls) = 2
    /\ calls[1].by = "KanjiPage" /\ calls[1].fault.kind = "render"
    /\ calls[1].pc = "rejected"
    /\ calls[2].by = "KanjiPage" /\ calls[2].pc = "resolved"

\* C23: a call in which the image load, the rendering, the inference or the
\* decoding failed is rejected with that very error, never resolved; the
\* handler awaiting it reports the error; the state of the hook is unchanged.
C23_FailuresSurfaceAsRejections ==
    /\ [](\A c \in 1..Len(calls) :
            calls[c].fault.kind # "none" =>
                /\ calls[c].pc = "rejected"
                /\ calls[c].reason = calls[c].fault.error
                /\ calls[c].text = <<>>
                /\ session # NULL /\ ~isLoading /\ error = NULL)
    /\ [][\A c \in 1..Len(calls) :
            (calls[c].fault.kind = "none" /\ calls'[c].fault.kind # "none") =>
                /\ hookVars' = hookVars
                /\ \A k \in 1..Len(checks) :
                      checks[k].call = c =>
                          /\ ocrStatus' = <<"Error: ", calls'[c].fault.error>>
                          /\ checks'[k].pc = "done"]_vars

C23_Witness ==
    /\ mounted = "KanjiPage"
    /\ \E c \in 1..Len(calls) :
          /\ calls[c].by = "KanjiPage"
          /\ calls[c].fault = [kind |-> "inference", error |-> "failed to run inference"]
          /\ calls[c].pc = "rejected" /\ calls[c].ran
    /\ ocrStatus = <<"Error: ", "failed to run inference">>

\* C24: calls in flight together do not interfere: no step changes two calls
\* or, while working on a call, the hook; every resolved call used its own
\* image, canvas and tensor and its text is the decode of its own score matrix.
C24_ConcurrentCallsIndependent ==
    /\ [](\A c \in 1..Len(calls) :
            calls[c].pc = "resolved" =>
                /\ calls[c].text = ctcDecode(calls[c].output, charList)
                /\ calls[c].image /\ calls[c].canvas /\ calls[c].tensor
                /\ calls[c].ran)
    /\ [][\A c \in 1..Len(calls) :
            calls'[c] # calls[c] =>
                /\ hookVars' = hookVars
                /\ \A d \in 1..Len(calls) : d # c => calls'[d] = calls[d]]_vars

C24_Witness ==
    /\ Len(calls) = 2
    /\ calls[1].pc = "running"
    /\ calls[2].pc = "resolved" /\ calls[2].text = <<"A", "B">>

\* C25: when the image load and the inference of every call finish, every
\* call is eventually settled; and a settled call stays as it was settled.
C25_EveryCallSettlesOnce ==
    /\ \A c \in 1..MaxInvocations : (c <= Len(calls)) ~> Settled(c)
    /\ [][\A c \in 1..Len(calls) :
            Settled(c) =>
                /\ calls'[c].pc = calls[c].pc
                /\ calls'[c].text = calls[c].text
                /\ calls'[c].reason = calls[c].reason]_vars

C25_Witness ==
    /\ Len(calls) = 2
    /\ calls[1].pc = "resolved" /\ calls[1].validation = "logged"
    /\ calls[2].pc = "rejected" /\ calls[2].fault.kind = "inference"
    /\ \A k \in 1..Len(checks) : checks[k].pc = "done"

\* C26: isLoading = true and error # null never hold together.
C26_NeverLoadingWithError == ~(isLoading /\ error # NULL)

C26_Witness ==
    /\ initPc = "failed" /\ error = "no available backend found"
    /\ ~isLoading /\ charList # <<>>

\* C27: a call resolves with the client-decoded text while its validation is
\* still pending, and the validation, whether it succeeds or fails, changes
\* neither the settlement of the call nor what its caller shows.
C27_ValidationNeverAltersResult ==
    /\ [](\A c \in 1..Len(calls) :
            calls[c].validation # "none" =>
                /\ calls[c].pc = "resolved" /\ calls[c].reason = ""
                /\ calls[c].text = ctcDecode(calls[c].output, charList))
    /\ [][\A c \in 1..Len(calls) :
            /\ (calls[c].pc = "running" /\ calls'[c].pc = "resolved")
                  => calls'[c].validation = "pending"
            /\ (calls[c].validation = "pending" /\ calls'[c].validation # "pending")
                  => /\ calls'[c].pc = calls[c].pc
                     /\ calls'[c].text = calls[c].text
                     /\ uiVars' = uiVars /\ checks' = checks]_vars

C27_Witness ==
    /\ mounted = "KanjiPage" /\ Len(calls) = 1
    /\ calls[1].pc = "resolved" /\ calls[1].validation = "null"
    /\ calls[1].text = <<"A", "B">>
    /\ ocrStatus = <<"Correct!", "">>

-----------------------------------------------------------------------------
(* SpecDecode: ctcDecode applied to every drawn (score matrix, charList) *)

InitDecode ==
    /\ output \in Outputs
    /\ charList \in CharLists
    /\ predIndices = <<>> /\ charIndices = <<>> /\ text = <<>>
    /\ decodePhase = "input"
    /\ HookUnused /\ UiUnused /\ NormUnused /\ DataUnused

\* const text = ctcDecode(output, charList)
DecodeCall ==
    /\ decodePhase = "input"
    /\ LET run == ctcDecodeRun(output, charList)
       IN  /\ predIndices' = run.predIndices
           /\ charIndices' = run.charIndices
           /\ text' = ctcDecode(output, charList)
    /\ decodePhase' = "decoded"
    /\ UNCHANGED <<output, hookVars, uiVars, checks, calls, normVars, dataVars>>

NextDecode == DecodeCall

SpecDecode == InitDecode /\ [][NextDecode]_vars

-----------------------------------------------------------------------------
(* Claims about ctcDecode *)

\* first step of the reference: drop every index equal to its predecessor
DropRepeats(pred) ==
    LET pairs == [i \in 1..Len(pred) |->
                    <<pred[i], IF i = 1 THEN -1 ELSE pred[i - 1]>>]
        kept  == SelectSeq(pairs, LAMBDA p : p[1] # p[2])
    IN  [i \in 1..Len(kept) |-> kept[i][1]]

\* second step of the reference: drop every remaining 0
StripBlanks(idxs) == SelectSeq(idxs, LAMBDA x : x # 0)

\* [blank, A, B, space]
ExampleVocabulary == MakeCharList(<< <<"A">>, <<"B">> >>)

\* {0: blank, 5: "A"}
VocabularyA5 ==
    MakeCharList(<< <<"B">>, <<"C">>, <<"D">>, <<"E">>, <<"A">> >>)

\* C1: the single pass of ctcDecode emits exactly what the two-step
\* reference emits (drop every index equal to its predecessor, then drop
\* every 0), and the argmax sequence [1,1,0,2] over [blank,A,B,space]
\* decodes to "AB".
C1_SinglePassIsTwoStep ==
    /\ decodePhase = "decoded" =>
          /\ charIndices = StripBlanks(DropRepeats(predIndices))
          /\ text = Join(MapChars(StripBlanks(DropRepeats(predIndices)), charList))
    /\ ctcDecodeRun(OneHot(<<1, 1, 0, 2>>, 4), ExampleVocabulary)
          = [predIndices |-> <<1, 1, 0, 2>>, charIndices |-> <<1, 2>>,
             text |-> <<"A", "B">>]

C1_Witness ==
    /\ decodePhase = "decoded"
    /\ predIndices = <<2, 2, 0>>
    /\ charIndices = <<2>>

\* the number of maximal runs of index k in pred
Runs(pred, k) ==
    Cardinality({i \in 1..Len(pred) :
                    pred[i] = k /\ (i = 1 \/ pred[i - 1] # k)})

Occurrences(idxs, k) == Cardinality({i \in 1..Len(idxs) : idxs[i] = k})

\* C2: occurrences of one non-blank index separated by a blank are not
\* merged: every maximal run of a non-blank index is emitted once, so
\* [k,0,k] yields k twice; [5,0,5] and [0,0,5,5,0,5,0] both decode to "AA".
C2_NoMergeAcrossBlank ==
    /\ decodePhase = "decoded" =>
          /\ \A k \in 1..(output.dims[3] - 1) :
                Occurrences(charIndices, k) = Runs(predIndices, k)
          /\ \A i \in 1..(Len(predIndices) - 2) :
                (/\ predIndices[i] # 0
                 /\ predIndices[i + 1] = 0
                 /\ predIndices[i + 2] = predIndices[i])
                => Occurrences(charIndices, predIndices[i]) >= 2
    /\ Collapse(<<5, 0, 5>>) = <<5, 5>>
    /\ Join(MapChars(Collapse(<<5, 0, 5>>), VocabularyA5)) = <<"A", "A">>
    /\ Collapse(<<0, 0, 5, 5, 0, 5, 0>>) = <<5, 5>>
    /\ Join(MapChars(Collapse(<<0, 0, 5, 5, 0, 5, 0>>), VocabularyA5)) = <<"A", "A">>

C2_Witness ==
    /\ decodePhase = "decoded"
    /\ predIndices = <<1, 0, 1>>
    /\ text = <<"A", "A">>

\* row t (1-based) of a score matrix
Row(out, t) ==
    [i \in 1..out.dims[3] |-> out.data[(t - 1) * out.dims[3] + i]]

\* C3: the raw index sequence has length T, and the index selected for
\* timestep t is the smallest index whose score is the maximum of row t.
C3_ArgmaxLowestIndex ==
    decodePhase = "decoded" =>
        /\ Len(predIndices) = output.dims[2]
        /\ \A t \in 1..output.dims[2] :
              LET row == Row(output, t)
                  m   == predIndices[t]
              IN  /\ m \in 0..(output.dims[3] - 1)
                  /\ \A i \in 1..Len(row) : row[i] <= row[m + 1]
                  /\ \A i \in 1..m : row[i] < row[m + 1]

C3_Witness ==
    /\ decodePhase = "decoded"
    /\ output = [dims |-> <<1, 2, 3>>, data |-> <<0, 1, 1, 1, 1, 0>>]
    /\ predIndices = <<1, 0>>

\* C16: a surviving index at or beyond the vocabulary length contributes
\* the empty string; the other symbols are returned, in order.
C16_OutOfRangeIsEmpty ==
    decodePhase = "decoded" =>
        LET inRange == SelectSeq(charIndices, LAMBDA i : i < Len(charList))
        IN  /\ text = Join([k \in 1..Len(inRange) |-> charList[inRange[k] + 1]])
            /\ (\A k \in 1..Len(charIndices) : charIndices[k] >= Len(charList))
                  => text = <<>>

C16_Witness ==
    /\ decodePhase = "decoded"
    /\ Len(charList) = 3
    /\ charIndices = <<1, 3>>
    /\ text = <<"A">>

\* every timestep's argmax is the same non-blank index (T >= 1)
SingleRepeatedSymbol ==
    /\ Len(predIndices) >= 1
    /\ predIndices[1] # 0
    /\ \A t \in 1..Len(predIndices) : predIndices[t] = predIndices[1]

\* C17 as stated: when every timestep's argmax is the same non-blank index,
\* ctcDecode produces the empty string.
C17_RepeatedSymbolIsEmpty ==
    (decodePhase = "decoded" /\ SingleRepeatedSymbol) => text = <<>>

\* C17 (amended): when every timestep's argmax is the same non-blank index k,
\* ctcDecode emits that index exactly once: the text is the vocabulary entry
\* at k (the empty string only when k is outside the vocabulary or the entry
\* is empty).
C17_RepeatedSymbolEmittedOnce ==
    (decodePhase = "decoded" /\ SingleRepeatedSymbol) =>
        /\ charIndices = <<predIndices[1]>>
        /\ text = IF predIndices[1] < Len(charList)
                  THEN charList[predIndices[1] + 1] ELSE <<>>

C17_Witness ==
    /\ decodePhase = "decoded"
    /\ predIndices = <<2, 2, 2>>
    /\ text = <<"B">>

\* C18: a score matrix whose maximum is at index 0 in every row (T = 0
\* included) decodes to the empty string.
C18_AllBlankIsEmpty ==
    (/\ decodePhase = "decoded"
     /\ \A t \in 1..output.dims[2] :
           \A i \in 1..output.dims[3] : Row(output, t)[i] <= Row(output, t)[1])
    => /\ text = <<>>
       /\ charIndices = <<>>

C18_Witness ==
    /\ decodePhase = "decoded"
    /\ output = [dims |-> <<1, 2, 3>>, data |-> <<1, 0, 1, 0, 0, 0>>]
    /\ predIndices = <<0, 0>>
    /\ text = <<>>

\* C19: the decoded text consists of at most T emitted symbols; its length
\* is at most T.
C19_LengthBoundedByT ==
    decodePhase = "decoded" =>
        /\ Len(charIndices) <= output.dims[2]
        /\ Len(text) <= output.dims[2]

C19_Witness ==
    /\ decodePhase = "decoded"
    /\ output.dims = <<1, 3, 3>>
    /\ predIndices = <<1, 2, 1>>
    /\ text = <<"A", "B", "A">>

-----------------------------------------------------------------------------
(* SpecNorm: the pre-processing applied to every drawn image *)

ImageKinds == {"white", "ink", "tinted", "transparent", "ramp"}

InitNorm ==
    /\ img \in [width : 1..MaxWidth, height : 1..MaxHeight, kind : ImageKinds]
    /\ resizedWidth = 0 /\ float32Data = <<>>
    /\ normPhase = "onload"
    /\ charList = <<>>
    /\ HookUnused /\ UiUnused /\ DecodeUnused /\ DataUnused

\* let ratio = ...; let resizedWidth = ...; if (resizedWidth > maxTargetWidth) ...
Resize ==
    /\ normPhase = "onload"
    /\ resizedWidth' = ResizedWidth(img.width, img.height)
    /\ normPhase' = "resized"
    /\ UNCHANGED <<img, float32Data, charList, hookVars, uiVars, checks, calls,
                   decodeVars, dataVars>>

\* getContext('2d') returns a context: fillRect, drawImage, getImageData and
\* the loop that fills float32Data
BuildTensor ==
    /\ normPhase = "resized"
    /\ float32Data' = Float32Data(Pixels(img, resizedWidth))
    /\ normPhase' = "tensor"
    /\ UNCHANGED <<img, resizedWidth, charList, hookVars, uiVars, checks, calls,
                   decodeVars, dataVars>>

\* getContext('2d') returns null: throw new Error("Could not get canvas context")
NoContext ==
    /\ normPhase = "resized"
    /\ normPhase' = "noContext"
    /\ UNCHANGED <<img, resizedWidth, float32Data, charList, hookVars, uiVars,
                   checks, calls, decodeVars, dataVars>>

NextNorm == Resize \/ BuildTensor \/ NoContext

SpecNorm == InitNorm /\ [][NextNorm]_vars

-----------------------------------------------------------------------------
(* Claims about the normalizer *)

\* the least integer n with n >= a / b, for positive a and b
LeastAtLeast(a, b) == CHOOSE n \in 0..a : n * b >= a /\ (n - 1) * b < a

Min(a, b) == IF a <= b THEN a ELSE b

\* C9: the target width is min(ceil(48 * w / h), 320), the target height is
\* 48, and the width is exactly 320 whenever w / h > 320 / 48.
C9_TargetWidth ==
    normPhase \in {"resized", "tensor", "noContext"} =>
        /\ resizedWidth = Min(LeastAtLeast(48 * img.width, img.height), 320)
        /\ (48 * img.width > 320 * img.height => resizedWidth = 320)
        /\ targetHeight = 48
        /\ (normPhase = "tensor"
              => Len(float32Data) = 3 * 48 * 320)

C9_Witness ==
    /\ normPhase = "resized"
    /\ img.width = 7 /\ img.height = 1
    /\ resizedWidth = 320

C11_PaddingIsZero ==
    (normPhase = "tensor" /\ 48 * img.width <= 320 * img.height) =>
        \A c \in 0..2 : \A y \in 0..47 :
            \A x \in LeastAtLeast(48 * img.width, img.height)..319 :
                float32Data[c * 48 * 320 + y * 320 + x + 1] = 0

\* C12: a raw channel value p in 0..255 is stored as (2p - 255) / 255: every
\* tensor element is such a value and lies in [-1, 1], p = 0 gives -1,
\* p = 255 gives 1, and the mapping is strictly increasing in p.
C12_NormalizeRange ==
    /\ normPhase = "tensor" =>
          \A k \in 1..Len(float32Data) :
              /\ float32Data[k] >= -255 /\ float32Data[k] <= 255
              /\ \E p \in 0..255 : float32Data[k] = 2 * p - 255
    /\ \A p \in 0..255 : Normalize(p) = 2 * p - 255
    /\ Normalize(0) = -255 /\ Normalize(255) = 255
    /\ \A p \in 0..254 : Normalize(p) < Normalize(p + 1)

C12_Witness ==
    /\ normPhase = "tensor" /\ img.kind = "ramp"
    /\ img.width = 8 /\ img.height = 5
    /\ float32Data[1] = -255
    /\ \E k \in 1..77 : float32Data[k] \notin {-255, 255}

\* C13: the tensor has exactly 3*48*320 elements, channel-major: element
\* c*48*320 + y*320 + x is the normalized channel c (0 red, 1 green, 2 blue)
\* of canvas pixel (x, y); alpha is stored nowhere, no element is skipped.
C13_ChannelMajorLayout ==
    normPhase = "tensor" =>
        /\ Len(float32Data) = 3 * 48 * 320
        /\ DOMAIN float32Data = 1..(3 * 48 * 320)
        /\ \A c \in 0..2 : \A y \in 0..47 : \A x \in 0..319 :
              float32Data[c * 48 * 320 + y * 320 + x + 1]
                 = 2 * CanvasPixel(img, resizedWidth, x, y)[c + 1] - 255

C13_Witness ==
    /\ normPhase = "tensor"
    /\ img = [width |-> 2, height |-> 1, kind |-> "tinted"]
    /\ float32Data[1] = 255
    /\ float32Data[48 * 320 + 1] = 1
    /\ float32Data[2 * 48 * 320 + 1] = -253

-----------------------------------------------------------------------------
(* useKanjiData: parseCSVLine and loadCSV *)

\* the characters String.prototype.trim removes that occur in the model
Whitespace == {" ", "\t", "\r", "\n"}

RECURSIVE TrimStart(_)
TrimStart(str) ==
    IF str # <<>> /\ Head(str) \in Whitespace THEN TrimStart(Tail(str)) ELSE str

RECURSIVE TrimEnd(_)
TrimEnd(str) ==
    IF str # <<>> /\ str[Len(str)] \in Whitespace
    THEN TrimEnd(SubSeq(str, 1, Len(str) - 1)) ELSE str

\* String.prototype.trim
Trim(str) == TrimEnd(TrimStart(str))

RECURSIVE ParseCSVNoQuotes(_, _, _, _)
\* mutant of parseCSVLine: inQuotes is never set, every comma splits
ParseCSVNoQuotes(line, i, current, values) ==
    IF i >= Len(line) THEN Append(values, Trim(current))
    ELSE LET char == line[i + 1]
         IN  IF char = "\""
             THEN ParseCSVNoQuotes(line, i + 1, current, values)
             ELSE IF char = ","
             THEN ParseCSVNoQuotes(line, i + 1, <<>>, Append(values, Trim(current)))
             ELSE ParseCSVNoQuotes(line, i + 1, Append(current, char), values)

parseCSVLineEveryComma(line) == ParseCSVNoQuotes(line, 0, <<>>, <<>>)

RECURSIVE ParseCSVFrom(_, _, _, _, _)
\* the loop of parseCSVLine over i, with its locals current, inQuotes, values,
\* and the values.push(current.trim()) after the loop
ParseCSVFrom(line, i, current, inQuotes, values) ==
    IF i >= Len(line) THEN Append(values, Trim(current))
    ELSE LET char == line[i + 1]
         IN  IF char = "\""
             THEN ParseCSVFrom(line, i + 1, current, ~inQuotes, values)
             ELSE IF char = "," /\ ~inQuotes
             THEN ParseCSVFrom(line, i + 1, <<>>, inQuotes,
                               Append(values, Trim(current)))
             ELSE ParseCSVFrom(line, i + 1, Append(current, char), inQuotes, values)

parseCSVLine(line) == ParseCSVFrom(line, 0, <<>>, FALSE, <<>>)

RECURSIVE SplitOnFrom(_, _, _, _)
\* String.prototype.split with a one-character separator
SplitOnFrom(txt, sep, cur, acc) ==
    IF txt = <<>> THEN Append(acc, cur)
    ELSE IF Head(txt) = sep
         THEN SplitOnFrom(Tail(txt), sep, <<>>, Append(acc, cur))
         ELSE SplitOnFrom(Tail(txt), sep, Append(cur, Head(txt)), acc)

SplitOn(txt, sep) == SplitOnFrom(txt, sep, <<>>, <<>>)

\* dataLines.map(line => entry of parseCSVLine(line))
MapEntries(dataLines) ==
    [k \in 1..Len(dataLines) |-> KanjiEntry(parseCSVLine(dataLines[k]))]

\* mutant of LoadEntries: the header row is not skipped
LoadEntriesWithHeader(txt) ==
    SelectSeq(MapEntries(SplitOn(Trim(txt), "\n")), LAMBDA entry : entry.kanji # <<>>)

\* text.trim().split('\n'), slice(1), map, filter(entry => entry.kanji)
LoadEntries(txt) ==
    LET lines     == SplitOn(Trim(txt), "\n")
        dataLines == Tail(lines)
    IN  SelectSeq(MapEntries(dataLines), LAMBDA entry : entry.kanji # <<>>)

\* the messages of the errors fetch and response.text reject with
CsvErrors == {"Failed to fetch"}

\* await fetch(CSV_PATH) resolves with response.ok: response.text() is called
CsvFetchResolves ==
    /\ csvPc = "fetch"
    /\ csvPc' = "readText"
    /\ UNCHANGED <<csvText, kanjiData, csvIsLoading, csvError>>

\* await fetch(CSV_PATH) resolves with a response that is not ok: the throw
\* is caught, setError(e.message); setIsLoading(false)
CsvFetchNotOk ==
    /\ csvPc = "fetch"
    /\ csvError' = "Failed to load CSV: 404"
    /\ csvIsLoading' = FALSE
    /\ csvPc' = "failed"
    /\ UNCHANGED <<csvText, kanjiData>>

\* await response.text() resolves: the entries are built,
\* setKanjiData(entries); setIsLoading(false)
CsvReadTextResolves ==
    /\ csvPc = "readText"
    /\ kanjiData' = LoadEntries(csvText)
    /\ csvIsLoading' = FALSE
    /\ csvPc' = "done"
    /\ UNCHANGED <<csvText, csvError>>

\* fetch or response.text() rejects with an Error of message e: the catch
CsvCatch(e) ==
    /\ csvPc \in {"fetch", "readText"}
    /\ csvError' = e
    /\ csvIsLoading' = FALSE
    /\ csvPc' = "failed"
    /\ UNCHANGED <<csvText, kanjiData>>

-----------------------------------------------------------------------------
(* SpecParse: parseCSVLine applied to every drawn line *)

\* the characters of the drawn lines and texts
LineChars == {"K", ",", "\"", " "}
TextChars == {"K", ",", "\"", " ", "\n"}

\* the strings over chars of length at most n
Strings(chars, n) == UNION { [1..k -> chars] : k \in 0..n }

InitParse ==
    /\ csvLine \in Strings(LineChars, MaxLineLen)
    /\ csvValues = <<>> /\ parsePhase = "input"
    /\ charList = <<>>
    /\ HookUnused /\ UiUnused /\ DecodeUnused /\ NormUnused
    /\ CsvUnused /\ LensUnused

\* const values = parseCSVLine(line)
ParseCall ==
    /\ parsePhase = "input"
    /\ csvValues' = parseCSVLine(csvLine)
    /\ parsePhase' = "parsed"
    /\ UNCHANGED <<csvLine, hookVars, uiVars, checks, calls, decodeVars, normVars,
                   csvVars, lensVars>>

NextParse == ParseCall

SpecParse == InitParse /\ [][NextParse]_vars

-----------------------------------------------------------------------------
(* SpecCSV: useKanjiData with every drawn CSV text *)

InitCSV ==
    /\ csvText \in Strings(TextChars, MaxTextLen)
    /\ kanjiData = <<>> /\ csvIsLoading = TRUE /\ csvError = NULL
    /\ csvPc = "fetch"
    /\ charList = <<>>
    /\ HookUnused /\ UiUnused /\ DecodeUnused /\ NormUnused
    /\ ParseUnused /\ LensUnused

otherThanCsv == <<hookVars, uiVars, checks, calls, decodeVars, normVars,
                  parseVars, lensVars>>

NextCSV ==
    \/ CsvFetchResolves /\ UNCHANGED otherThanCsv
    \/ CsvFetchNotOk /\ UNCHANGED otherThanCsv
    \/ CsvReadTextResolves /\ UNCHANGED otherThanCsv
    \/ \E e \in CsvErrors : CsvCatch(e) /\ UNCHANGED otherThanCsv

SpecCSV == InitCSV /\ [][NextCSV]_vars

-----------------------------------------------------------------------------
(* Claims about useKanjiData *)

\* the positions of the commas of a line that are outside double quotes: an
\* even number of quote characters precedes them
UnquotedCommas(line) ==
    {i \in 1..Len(line) :
        /\ line[i] = ","
        /\ Cardinality({j \in 1..(i - 1) : line[j] = "\""}) % 2 = 0}

\* the k-th smallest element of a set of numbers
Nth(S, k) == CHOOSE i \in S : Cardinality({j \in S : j < i}) = k - 1

\* the k-th piece of a line cut at the positions of S
Piece(line, S, k) ==
    LET from == IF k = 1 THEN 1 ELSE Nth(S, k - 1) + 1
        to   == IF k = Cardinality(S) + 1 THEN Len(line) ELSE Nth(S, k) - 1
    IN  SubSeq(line, from, to)

WithoutQuotes(str) == SelectSeq(str, LAMBDA ch : ch # "\"")

\* C28: parseCSVLine cuts a line at exactly the commas outside double quotes:
\* (unquoted commas + 1) fields, in order, each the piece between two cuts
\* with the quote characters removed and the surrounding whitespace trimmed.
C28_SplitsAtUnquotedCommas ==
    parsePhase = "parsed" =>
        LET cuts == UnquotedCommas(csvLine)
        IN  /\ Len(csvValues) = Cardinality(cuts) + 1
            /\ \A k \in 1..Len(csvValues) :
                  /\ k <= Cardinality(cuts) + 1
                  /\ csvValues[k] = Trim(WithoutQuotes(Piece(csvLine, cuts, k)))
                  /\ \A i \in 1..Len(csvValues[k]) : csvValues[k][i] # "\""
                  /\ csvValues[k] # <<>> =>
                        /\ csvValues[k][1] # " "
                        /\ csvValues[k][Len(csvValues[k])] # " "

C28_Witness ==
    /\ parsePhase = "parsed"
    /\ csvLine = <<"\"", ",", "\"", ",", "K">>
    /\ csvValues = << <<",">>, <<"K">> >>

\* a line of whitespace only
Blank(line) == \A i \in 1..Len(line) : line[i] \in Whitespace

\* the lines of the file after its header row (the first line that is not
\* blank)
LinesAfterHeader(txt) ==
    LET lines == SplitOn(txt, "\n")
        heads == {h \in 1..Len(lines) : ~Blank(lines[h])}
    IN  IF heads = {} THEN <<>>
        ELSE SubSeq(lines, Nth(heads, 1) + 1, Len(lines))

-----------------------------------------------------------------------------
(* LensOverlay: handleCapture and handleOCR *)

\* the elements of a list that no handler has built yet
NotExported == << [id |-> 0, isDeleted |-> TRUE, bounds |-> <<0, 0, 0, 0>>] >>

\* canvasX1, canvasY1, canvasX2, canvasY2: the lens in canvas coordinates.
\* sc.left and sc.top are those of the container's bounding rectangle, sc.zoom
\* is appState.zoom.value.  The quotients are exact for the drawn scenes (the
\* zoom divides the position and the size).
LensBounds(pos, sz, sc) ==
    LET lensScreenX == pos.x - sc.left
        lensScreenY == pos.y - sc.top
        canvasX1 == (lensScreenX \div sc.zoom) - sc.scrollX
        canvasY1 == (lensScreenY \div sc.zoom) - sc.scrollY
    IN  [canvasX1 |-> canvasX1, canvasY1 |-> canvasY1,
         canvasX2 |-> canvasX1 + (sz.width \div sc.zoom),
         canvasY2 |-> canvasY1 + (sz.height \div sc.zoom)]

\* const [x1, y1, x2, y2] = getCommonBounds([element]): the bounding box of
\* the element, which the element carries in the model
Bounds(element) == element.bounds

\* the filter of handleCapture
CaptureFilter(element, lens) ==
    IF element.isDeleted THEN FALSE
    ELSE LET b == Bounds(element)
         IN  ~(\/ b[3] < lens.canvasX1
               \/ b[1] > lens.canvasX2
               \/ b[4] < lens.canvasY1
               \/ b[2] > lens.canvasY2)

\* mutant of OCRFilter: "<=" and ">=" in place of "<" and ">"
OCRFilterStrict(element, lens) ==
    IF element.isDeleted THEN FALSE
    ELSE LET b == Bounds(element)
         IN  ~(\/ b[3] <= lens.canvasX1
               \/ b[1] >= lens.canvasX2
               \/ b[4] <= lens.canvasY1
               \/ b[2] >= lens.canvasY2)

\* the filter of handleOCR
OCRFilter(element, lens) ==
    IF element.isDeleted THEN FALSE
    ELSE LET b == Bounds(element)
         IN  ~(\/ b[3] < lens.canvasX1
               \/ b[1] > lens.canvasX2
               \/ b[4] < lens.canvasY1
               \/ b[2] > lens.canvasY2)

\* handleCapture: without the container it returns; otherwise the elements
\* in the lens are passed to exportToCanvas (the image is then downloaded,
\* or the error of the export is logged)
HandleCapture ==
    /\ ocrPc # "unused"
    /\ IF ~scene.hasContainer
       THEN UNCHANGED captureElements
       ELSE LET lens == LensBounds(position, size, scene)
            IN  captureElements' =
                    SelectSeq(scene.elements, LAMBDA element : CaptureFilter(element, lens))
    /\ UNCHANGED <<position, size, isOCRProcessing, scene, ocrElements, ocrPc>>

\* handleOCR up to await exportToCanvas: setIsOCRProcessing(true); without
\* the container setIsOCRProcessing(false) and return; the OCR button is
\* disabled while isOCRProcessing
HandleOCRClick ==
    /\ ocrPc = "idle" /\ ~isOCRProcessing
    /\ IF ~scene.hasContainer
       THEN UNCHANGED <<isOCRProcessing, ocrElements, ocrPc>>
       ELSE LET lens == LensBounds(position, size, scene)
            IN  /\ isOCRProcessing' = TRUE
                /\ ocrElements' =
                      SelectSeq(scene.elements, LAMBDA element : OCRFilter(element, lens))
                /\ ocrPc' = "exporting"
    /\ UNCHANGED <<position, size, scene, captureElements>>

\* await exportToCanvas resolves: toDataURL, fetch of the OCR API
HandleOCRExported ==
    /\ ocrPc = "exporting"
    /\ ocrPc' = "fetching"
    /\ UNCHANGED <<position, size, isOCRProcessing, scene, captureElements,
                   ocrElements>>

\* the response is ok and its JSON is read: alert with the recognized text or
\* with "no text was detected"; finally setIsOCRProcessing(false)
HandleOCRResponds ==
    /\ ocrPc = "fetching"
    /\ isOCRProcessing' = FALSE
    /\ ocrPc' = "idle"
    /\ UNCHANGED <<position, size, scene, captureElements, ocrElements>>

\* mutant of HandleOCRFails: no finally
HandleOCRFailsNoFinally ==
    /\ ocrPc \in {"exporting", "fetching"}
    /\ ocrPc' = "idle"
    /\ UNCHANGED <<position, size, isOCRProcessing, scene, captureElements,
                   ocrElements>>

\* the export or the fetch rejects, or the response is not ok: the catch
\* alerts "OCR failed: ..."; finally setIsOCRProcessing(false)
HandleOCRFails ==
    /\ ocrPc \in {"exporting", "fetching"}
    /\ isOCRProcessing' = FALSE
    /\ ocrPc' = "idle"
    /\ UNCHANGED <<position, size, scene, captureElements, ocrElements>>

-----------------------------------------------------------------------------
(* SpecLens: LensOverlay over every drawn scene *)

\* the coordinates the bounding boxes of the drawn elements are taken from
XCoords == {0, 50, 100, 250, 500, 600}
YCoords == {0, 100, 400, 450}

Boxes ==
    { <<x1, y1, x2, y2>> : x1 \in XCoords, y1 \in YCoords,
                           x2 \in XCoords, y2 \in YCoords }

\* an element well inside the lens
Anchor == [id |-> 2, isDeleted |-> FALSE, bounds |-> <<150, 150, 200, 200>>]

Scenes ==
    { [elements |-> els, zoom |-> z, scrollX |-> sx, scrollY |-> 0,
       left |-> 0, top |-> 0, hasContainer |-> hc] :
         els \in UNION { { <<e>>, <<e, Anchor>> } :
                         e \in { [id |-> 1, isDeleted |-> d, bounds |-> b] :
                                   d \in BOOLEAN,
                                   b \in {bx \in Boxes : bx[1] <= bx[3] /\ bx[2] <= bx[4]} } },
         z \in {1, 2}, sx \in {0, 50}, hc \in BOOLEAN }

InitLens ==
    /\ position = [x |-> 100, y |-> 100]
    /\ size = [width |-> 400, height |-> 300]
    /\ isOCRProcessing = FALSE
    /\ scene \in Scenes
    /\ captureElements = NotExported /\ ocrElements = NotExported
    /\ ocrPc = "idle"
    /\ charList = <<>>
    /\ HookUnused /\ UiUnused /\ DecodeUnused /\ NormUnused
    /\ ParseUnused /\ CsvUnused

otherThanLens == <<hookVars, uiVars, checks, calls, decodeVars, normVars,
                   parseVars, csvVars>>

NextLens ==
    \/ HandleCapture /\ UNCHANGED otherThanLens
    \/ HandleOCRClick /\ UNCHANGED otherThanLens
    \/ HandleOCRExported /\ UNCHANGED otherThanLens
    \/ HandleOCRResponds /\ UNCHANGED otherThanLens
    \/ HandleOCRFails /\ UNCHANGED otherThanLens

SpecLens == InitLens /\ [][NextLens]_vars

-----------------------------------------------------------------------------
(* Claims about LensOverlay *)

\* the closed boxes <<x1, y1, x2, y2>> and [X1, X2] x [Y1, Y2] share a point
\* (boxes that only touch share one)
Overlap(b, lens) ==
    /\ Max(b[1], lens.canvasX1) <= Min(b[3], lens.canvasX2)
    /\ Max(b[2], lens.canvasY1) <= Min(b[4], lens.canvasY2)

\* the elements of a list, as a set
Range(seq) == {seq[i] : i \in 1..Len(seq)}

\* C30: handleCapture and handleOCR each export an element exactly when it is
\* not deleted and its bounding box overlaps the lens rectangle (touching
\* included), so both export the same elements.
C30_ExportedIffOverlapping ==
    LET lens == LensBounds(position, size, scene)
        want == {e \in Range(scene.elements) : ~e.isDeleted /\ Overlap(e.bounds, lens)}
    IN  /\ captureElements # NotExported => Range(captureElements) = want
        /\ ocrElements # NotExported => Range(ocrElements) = want
        /\ (captureElements # NotExported /\ ocrElements # NotExported)
              => captureElements = ocrElements

C30_Witness ==
    /\ scene.zoom = 1 /\ scene.scrollX = 0
    /\ scene.elements =
          << [id |-> 1, isDeleted |-> FALSE, bounds |-> <<500, 400, 600, 450>>],
             Anchor >>
    /\ captureElements = scene.elements
    /\ ocrElements = scene.elements
    /\ ocrPc = "idle"

-----------------------------------------------------------------------------
(* SpecPage: KanjiPage or KanjiOverlay with every drawn card list *)

\* the component has the cards and shows the first one; the hearts are those
\* left by the checks that finished before
InitPage ==
    /\ session = NULL /\ charList = <<>> /\ isLoading = TRUE /\ error = NULL
    /\ initPc = "mount" /\ loadsStarted = 0 /\ dictText = <<>>
    /\ mounted \in {"KanjiPage", "KanjiOverlay"}
    /\ ocrStatus = <<"", "">> /\ ocrResult = <<>> /\ isChecking = FALSE
    /\ checks = <<>> /\ calls = <<>>
    /\ currentIndex = 0
    /\ hearts \in (IF mounted = "KanjiPage" THEN 0..5 ELSE {0})
    /\ timers = <<>>
    /\ RestUnused
    /\ DecodeUnused /\ NormUnused /\ ParseUnused /\ LensUnused
    /\ \E cards \in CardLists : CardsLoaded(cards)

SpecPage == InitPage /\ [][Next]_vars

-----------------------------------------------------------------------------
(* Claims about the card shown and the hearts *)

\* the step is the callback of a delayed advance
TimerFires == timers # <<>> /\ timers' = Tail(timers)

\* C31: when the delayed advance of a correct check fires, the card shown
\* becomes the one after the card that was checked, whatever SKIP and CHECK
\* presses came in between.
C31_AdvanceIsFromCheckedCard ==
    [][TimerFires =>
          currentIndex' = (Head(timers).checked + 1) % Len(kanjiData)]_vars

\* C36: with a non-empty card list currentIndex is an index of it; it only
\* changes to the next card (the first after the last), to the previous card
\* (the last before the first), or to the first card that matches a component
\* of the card shown.
C36_CurrentIndexValid ==
    /\ [](kanjiData # <<>> => currentIndex \in 0..(Len(kanjiData) - 1))
    /\ [][currentIndex' # currentIndex =>
            LET n == Len(kanjiData)
            IN  \/ currentIndex' = (IF currentIndex = n - 1 THEN 0 ELSE currentIndex + 1)
                \/ /\ mounted = "KanjiOverlay"
                   /\ currentIndex' = (IF currentIndex = 0 THEN n - 1 ELSE currentIndex - 1)
                \/ /\ mounted = "KanjiOverlay"
                   /\ \E j \in 1..Len(Components(currentKanji)) :
                        LET component == Components(currentKanji)[j]
                        IN  /\ \/ \E i \in 1..Len(Components(kanjiData[currentIndex' + 1])) :
                                     ToLowerCase(Components(kanjiData[currentIndex' + 1])[i])
                                        = ToLowerCase(component)
                               \/ ToLowerCase(Keyword6thEd(kanjiData[currentIndex' + 1]))
                                     = ToLowerCase(component)
                            /\ currentIndex' < currentIndex]_vars

\* the delayed advance of a check of the last card has wrapped to the first
C36_Witness ==
    /\ mounted = "KanjiPage" /\ Len(kanjiData) = 2
    /\ Len(checks) = 1 /\ checks[1].index = 1 /\ checks[1].pc = "done"
    /\ ocrStatus = <<"", "">> /\ timers = <<>> /\ currentIndex = 0
    /\ Len(calls) = 1 /\ calls[1].pc = "resolved"

\* the step is a check of KanjiPage that is judged incorrect
JudgedIncorrect ==
    /\ mounted = "KanjiPage" /\ isChecking /\ ~isChecking'
    /\ ocrStatus' = <<"Try again!", "">>

\* C37: hearts is in 0..5 and never increases; a check judged incorrect takes
\* one heart if one is left and leaves 0 at 0; every other step leaves hearts
\* unchanged.
C37_HeartsOnlyDecrease ==
    /\ [](mounted = "KanjiPage" => hearts \in 0..5)
    /\ [][IF JudgedIncorrect
          THEN hearts' = (IF hearts > 0 THEN hearts - 1 ELSE 0)
          ELSE hearts' = hearts]_vars

\* two incorrect checks from one heart: 0 stays 0
C37_Witness ==
    /\ mounted = "KanjiPage" /\ hearts = 0
    /\ Len(checks) = 2 /\ checks[1].pc = "done" /\ checks[2].pc = "done"
    /\ Len(calls) = 2 /\ calls[1].pc = "resolved" /\ calls[2].pc = "resolved"
    /\ calls[1].text = <<>> /\ calls[2].text = <<>>
    /\ ocrStatus = <<"Try again!", "">>

-----------------------------------------------------------------------------
(* SpecBusy: a page with KanjiPage or KanjiOverlay, or a page with
   LensOverlay, where every awaited call finishes *)

InitBusy == Init \/ InitLens

NextBusy == Next \/ NextLens

\* await exportToBlob of check k finishes
ExportStep(k) ==
    /\ k \in 1..Len(checks)
    /\ \/ HandleCheckExported(k) /\ UNCHANGED otherThanUi
       \/ CheckDrawingExported(k) /\ UNCHANGED otherThanUi
       \/ ExportRejects(k) /\ UNCHANGED otherThanUi

\* the call handleOCR awaits (exportToCanvas, fetch, response.json) finishes
OCRStep ==
    \/ HandleOCRExported /\ UNCHANGED otherThanLens
    \/ HandleOCRResponds /\ UNCHANGED otherThanLens
    \/ HandleOCRFails /\ UNCHANGED otherThanLens

SpecBusy ==
    /\ InitBusy /\ [][NextBusy]_vars
    /\ \A c \in 1..MaxInvocations : WF_vars(CallStep(c))
    /\ \A k \in 1..MaxInvocations : WF_vars(ExportStep(k))
    /\ WF_vars(OCRStep)

\* C38: when the awaited calls finish, isChecking and isOCRProcessing, once
\* true, become false again.
C38_BusyFlagsReleased ==
    /\ isChecking ~> ~isChecking
    /\ isOCRProcessing ~> ~isOCRProcessing

\* handleOCR has run with the container present and has finished
C38_Witness ==
    /\ ocrPc = "idle" /\ ocrElements # NotExported /\ ~isOCRProcessing
    /\ scene.hasContainer

-----------------------------------------------------------------------------
(* The drag and resize handlers of the overlay panels.  An event carries the
   pointer p = [x |-> e.clientX, y |-> e.clientY]; the null of resizeHandle
   is the empty string (both are falsy). *)

\* KanjiOverlay.handleMouseDown (mouse-down on the body of the panel)
KanjiMouseDown(p) ==
    /\ panel = "KanjiOverlay" /\ events < MaxEvents
    /\ events' = events + 1
    /\ IF isResizing
       THEN UNCHANGED <<isDragging, dragOffset>>
       ELSE /\ isDragging' = TRUE
            /\ dragOffset' = [x |-> p.x - position.x, y |-> p.y - position.y]
    /\ UNCHANGED <<panel, position, size, isResizing, resizeHandle, resizeStart,
                   dragStartRef, resizeStartRef>>

\* KanjiOverlay.handleResizeMouseDown (mouse-down on the resize handle; the
\* event does not reach handleMouseDown)
KanjiResizeMouseDown(p) ==
    /\ panel = "KanjiOverlay" /\ events < MaxEvents
    /\ events' = events + 1
    /\ isResizing' = TRUE
    /\ resizeStart' = [x |-> p.x, y |-> p.y,
                       width |-> size.width, height |-> size.height]
    /\ UNCHANGED <<panel, position, size, isDragging, resizeHandle, dragOffset,
                   dragStartRef, resizeStartRef>>

\* mutant of KanjiMouseMove: no minimum size
KanjiMouseMoveNoMin(p) ==
    /\ panel = "KanjiOverlay" /\ events < MaxEvents
    /\ events' = events + 1
    /\ IF isDragging
       THEN /\ position' = [x |-> p.x - dragOffset.x, y |-> p.y - dragOffset.y]
            /\ UNCHANGED size
       ELSE IF isResizing
       THEN LET dx == p.x - resizeStart.x
                dy == p.y - resizeStart.y
            IN  /\ size' = [width  |-> resizeStart.width + dx,
                            height |-> resizeStart.height + dy]
                /\ UNCHANGED position
       ELSE UNCHANGED <<position, size>>
    /\ UNCHANGED <<panel, isDragging, isResizing, resizeHandle, dragOffset,
                   resizeStart, dragStartRef, resizeStartRef>>

\* KanjiOverlay.handleMouseMove
KanjiMouseMove(p) ==
    /\ panel = "KanjiOverlay" /\ events < MaxEvents
    /\ events' = events + 1
    /\ IF isDragging
       THEN /\ position' = [x |-> p.x - dragOffset.x, y |-> p.y - dragOffset.y]
            /\ UNCHANGED size
       ELSE IF isResizing
       THEN LET dx == p.x - resizeStart.x
                dy == p.y - resizeStart.y
            IN  /\ size' = [width  |-> Max(300, resizeStart.width + dx),
                            height |-> Max(200, resizeStart.height + dy)]
                /\ UNCHANGED position
       ELSE UNCHANGED <<position, size>>
    /\ UNCHANGED <<panel, isDragging, isResizing, resizeHandle, dragOffset,
                   resizeStart, dragStartRef, resizeStartRef>>

\* KanjiOverlay.handleMouseUp, the handler of mouse-up and of mouse-leave
KanjiMouseUp ==
    /\ panel = "KanjiOverlay" /\ events < MaxEvents
    /\ events' = events + 1
    /\ isDragging' = FALSE
    /\ isResizing' = FALSE
    /\ UNCHANGED <<panel, position, size, resizeHandle, dragOffset, resizeStart,
                   dragStartRef, resizeStartRef>>

\* the handles of the lens
Handles ==
    { <<"n", "w">>, <<"n">>, <<"n", "e">>, <<"e">>, <<"s", "e">>, <<"s">>,
      <<"s", "w">>, <<"w">> }

\* LensOverlay.handleMouseDown: on a resize handle (handle given) or on the
\* content of the lens (handle undefined, here the empty string)
LensMouseDown(p, handle) ==
    /\ panel = "LensOverlay" /\ events < MaxEvents
    /\ events' = events + 1
    /\ IF handle # <<>>
       THEN /\ isResizing' = TRUE
            /\ resizeHandle' = handle
            /\ resizeStartRef' = [x |-> p.x, y |-> p.y,
                                  width |-> size.width, height |-> size.height,
                                  posX |-> position.x, posY |-> position.y]
            /\ UNCHANGED <<isDragging, dragStartRef>>
       ELSE /\ isDragging' = TRUE
            /\ dragStartRef' = [x |-> p.x, y |-> p.y,
                                posX |-> position.x, posY |-> position.y]
            /\ UNCHANGED <<isResizing, resizeHandle, resizeStartRef>>
    /\ UNCHANGED <<panel, position, size, dragOffset, resizeStart>>

\* mutant of LensMouseMove: the west and north handles move the position by
\* the pointer delta
LensMouseMoveByDelta(p) ==
    /\ panel = "LensOverlay" /\ events < MaxEvents
    /\ isDragging \/ isResizing
    /\ events' = events + 1
    /\ IF isDragging
       THEN /\ position' = [x |-> dragStartRef.posX + (p.x - dragStartRef.x),
                            y |-> dragStartRef.posY + (p.y - dragStartRef.y)]
            /\ UNCHANGED size
       ELSE IF isResizing /\ resizeHandle # <<>>
       THEN LET start  == resizeStartRef
                deltaX == p.x - start.x
                deltaY == p.y - start.y
                newWidth ==
                    IF Includes(resizeHandle, <<"e">>)
                    THEN Max(100, start.width + deltaX)
                    ELSE IF Includes(resizeHandle, <<"w">>)
                    THEN Max(100, start.width - deltaX)
                    ELSE start.width
                newX ==
                    IF ~Includes(resizeHandle, <<"e">>) /\ Includes(resizeHandle, <<"w">>)
                    THEN start.posX + deltaX
                    ELSE start.posX
                newHeight ==
                    IF Includes(resizeHandle, <<"s">>)
                    THEN Max(100, start.height + deltaY)
                    ELSE IF Includes(resizeHandle, <<"n">>)
                    THEN Max(100, start.height - deltaY)
                    ELSE start.height
                newY ==
                    IF ~Includes(resizeHandle, <<"s">>) /\ Includes(resizeHandle, <<"n">>)
                    THEN start.posY + deltaY
                    ELSE start.posY
            IN  /\ size' = [width |-> newWidth, height |-> newHeight]
                /\ position' = [x |-> newX, y |-> newY]
       ELSE UNCHANGED <<position, size>>
    /\ UNCHANGED <<panel, isDragging, isResizing, resizeHandle, dragOffset,
                   resizeStart, dragStartRef, resizeStartRef>>

\* LensOverlay.handleMouseMove, a listener of window while isDragging or
\* isResizing
LensMouseMove(p) ==
    /\ panel = "LensOverlay" /\ events < MaxEvents
    /\ isDragging \/ isResizing
    /\ events' = events + 1
    /\ IF isDragging
       THEN /\ position' = [x |-> dragStartRef.posX + (p.x - dragStartRef.x),
                            y |-> dragStartRef.posY + (p.y - dragStartRef.y)]
            /\ UNCHANGED size
       ELSE IF isResizing /\ resizeHandle # <<>>
       THEN LET start  == resizeStartRef
                deltaX == p.x - start.x
                deltaY == p.y - start.y
                newWidth ==
                    IF Includes(resizeHandle, <<"e">>)
                    THEN Max(100, start.width + deltaX)
                    ELSE IF Includes(resizeHandle, <<"w">>)
                    THEN Max(100, start.width - deltaX)
                    ELSE start.width
                newX ==
                    IF ~Includes(resizeHandle, <<"e">>) /\ Includes(resizeHandle, <<"w">>)
                    THEN start.posX + (start.width - newWidth)
                    ELSE start.posX
                newHeight ==
                    IF Includes(resizeHandle, <<"s">>)
                    THEN Max(100, start.height + deltaY)
                    ELSE IF Includes(resizeHandle, <<"n">>)
                    THEN Max(100, start.height - deltaY)
                    ELSE start.height
                newY ==
                    IF ~Includes(resizeHandle, <<"s">>) /\ Includes(resizeHandle, <<"n">>)
                    THEN start.posY + (start.height - newHeight)
                    ELSE start.posY
            IN  /\ size' = [width |-> newWidth, height |-> newHeight]
                /\ position' = [x |-> newX, y |-> newY]
       ELSE UNCHANGED <<position, size>>
    /\ UNCHANGED <<panel, isDragging, isResizing, resizeHandle, dragOffset,
                   resizeStart, dragStartRef, resizeStartRef>>

\* LensOverlay.handleMouseUp, a listener of window while isDragging or
\* isResizing
LensMouseUp ==
    /\ panel = "LensOverlay" /\ events < MaxEvents
    /\ isDragging \/ isResizing
    /\ events' = events + 1
    /\ isDragging' = FALSE
    /\ isResizing' = FALSE
    /\ resizeHandle' = <<>>
    /\ UNCHANGED <<panel, position, size, dragOffset, resizeStart, dragStartRef,
                   resizeStartRef>>

-----------------------------------------------------------------------------
(* SpecPanel: a panel under every sequence of mouse events *)

\* the pointer positions of the events
Pointers == { [x |-> px, y |-> py] : px \in {0, 400}, py \in {0, 400} }

\* the panel as constructed; KanjiOverlay starts at (window.innerWidth / 2,
\* window.innerHeight / 4), here in a window of 800 x 800
InitPanel ==
    /\ panel \in {"KanjiOverlay", "LensOverlay"}
    /\ position = (IF panel = "KanjiOverlay" THEN [x |-> 400, y |-> 200]
                   ELSE [x |-> 100, y |-> 100])
    /\ size = (IF panel = "KanjiOverlay" THEN [width |-> 600, height |-> 400]
               ELSE [width |-> 400, height |-> 300])
    /\ isDragging = FALSE /\ isResizing = FALSE /\ resizeHandle = <<>>
    /\ dragOffset = [x |-> 0, y |-> 0]
    /\ resizeStart = [x |-> 0, y |-> 0, width |-> 0, height |-> 0]
    /\ dragStartRef = [x |-> 0, y |-> 0, posX |-> 0, posY |-> 0]
    /\ resizeStartRef = [x |-> 0, y |-> 0, width |-> 0, height |-> 0,
                         posX |-> 0, posY |-> 0]
    /\ events = 0
    /\ isOCRProcessing = FALSE /\ scene = NoScene
    /\ captureElements = <<>> /\ ocrElements = <<>> /\ ocrPc = "unused"
    /\ mounted = "none" /\ ocrStatus = <<"", "">> /\ ocrResult = <<>>
    /\ isChecking = FALSE /\ checks = <<>> /\ calls = <<>>
    /\ PageUnused /\ StrokeUnused
    /\ charList = <<>>
    /\ HookUnused /\ DecodeUnused /\ NormUnused /\ ParseUnused /\ CsvUnused

otherThanPanel ==
    <<hookVars, mounted, ocrStatus, ocrResult, isChecking, pageVars, strokeVars,
      checks, calls, decodeVars, normVars, parseVars, csvVars,
      isOCRProcessing, scene, captureElements, ocrElements, ocrPc>>

NextPanel ==
    \/ \E p \in Pointers : KanjiMouseDown(p) /\ UNCHANGED otherThanPanel
    \/ \E p \in Pointers : KanjiResizeMouseDown(p) /\ UNCHANGED otherThanPanel
    \/ \E p \in Pointers : KanjiMouseMove(p) /\ UNCHANGED otherThanPanel
    \/ KanjiMouseUp /\ UNCHANGED otherThanPanel
    \/ \E p \in Pointers : \E handle \in Handles \cup {<<>>} :
          LensMouseDown(p, handle) /\ UNCHANGED otherThanPanel
    \/ \E p \in Pointers : LensMouseMove(p) /\ UNCHANGED otherThanPanel
    \/ LensMouseUp /\ UNCHANGED otherThanPanel

SpecPanel == InitPanel /\ [][NextPanel]_vars

-----------------------------------------------------------------------------
(* Claims about the panels *)

\* C33: isDragging and isResizing are never both true.
C33_NeverDraggingAndResizing == ~(isDragging /\ isResizing)

\* C34: KanjiOverlay is never smaller than 300 x 200, LensOverlay never
\* smaller than 100 x 100.
C34_MinimumSize ==
    /\ panel = "KanjiOverlay" => size.width >= 300 /\ size.height >= 200
    /\ panel = "LensOverlay" => size.width >= 100 /\ size.height >= 100

\* KanjiOverlay resized down to its minimum, from 600 x 400
C34_Witness ==
    /\ panel = "KanjiOverlay" /\ isResizing /\ ~isDragging
    /\ resizeStart.width = 600 /\ resizeStart.height = 400
    /\ size = [width |-> 300, height |-> 200]

\* the lens is being resized: the mouse moves take the resize branch
Resizing == panel = "LensOverlay" /\ isResizing /\ ~isDragging

\* C35: while the lens is resized by a west (north) handle, its east (south)
\* edge stays where it was at the start of the resize, also at the minimum
\* size; while it is resized by a handle without west (north), position.x
\* (position.y) does not change.
C35_OppositeEdgeFixed ==
    /\ [](Resizing /\ Includes(resizeHandle, <<"w">>) =>
            position.x + size.width = resizeStartRef.posX + resizeStartRef.width)
    /\ [](Resizing /\ Includes(resizeHandle, <<"n">>) =>
            position.y + size.height = resizeStartRef.posY + resizeStartRef.height)
    /\ [][Resizing /\ isResizing' /\ ~isDragging' =>
            /\ ~Includes(resizeHandle, <<"w">>) => position'.x = position.x
            /\ ~Includes(resizeHandle, <<"n">>) => position'.y = position.y]_vars

\* the lens resized by the north-west handle down to the minimum size
C35_Witness ==
    /\ Resizing /\ resizeHandle = <<"n", "w">>
    /\ resizeStartRef.width = 400 /\ resizeStartRef.height = 300
    /\ resizeStartRef.posX = 100 /\ resizeStartRef.posY = 100
    /\ size = [width |-> 100, height |-> 100]
    /\ position = [x |-> 400, y |-> 300]

-----------------------------------------------------------------------------
(* StrokeOrderAnimation.  The null of svgContent is the empty string (both
   are falsy); error is svgError here. *)

\* the body of the response for the SVG of kanji k
Svg(k) == <<"<", "s", "v", "g", ">">> \o k

\* a fetch(svgUrl) of the effect
NewFetch(k) == [kanji |-> k, pc |-> "fetching"]

\* the prop kanji changes to k: the effect of [kanji, svgUrl] runs again:
\* setError(false), setSvgContent(null), setIsPlaying(false), fetch(svgUrl)
StrokeKanjiChanges(k) ==
    /\ fetches # <<>> /\ Len(fetches) < MaxFetches
    /\ k # kanjiProp
    /\ kanjiProp' = k
    /\ svgError' = FALSE
    /\ svgContent' = <<>>
    /\ isPlaying' = FALSE
    /\ fetches' = Append(fetches, NewFetch(k))

\* fetch f resolves: res.ok and res.text() is called, or !res.ok and the throw
\* reaches the catch: setError(true)
StrokeFetchResolves(f, ok) ==
    /\ fetches[f].pc = "fetching"
    /\ IF ok
       THEN /\ fetches' = [fetches EXCEPT ![f].pc = "text"]
            /\ UNCHANGED svgError
       ELSE /\ fetches' = [fetches EXCEPT ![f].pc = "failed"]
            /\ svgError' = TRUE
    /\ UNCHANGED <<kanjiProp, svgContent, isPlaying>>

\* res.text() of fetch f resolves: setSvgContent(svg); the effect of
\* [svgContent, ...] then injects the SVG into the container, if it is
\* rendered (no error), and calls setIsPlaying(true)
StrokeTextResolves(f) ==
    /\ fetches[f].pc = "text"
    /\ fetches' = [fetches EXCEPT ![f].pc = "done"]
    /\ svgContent' = Svg(fetches[f].kanji)
    /\ isPlaying' = (IF ~svgError THEN TRUE ELSE isPlaying)
    /\ UNCHANGED <<kanjiProp, svgError>>

\* fetch f or its res.text() rejects: the catch, setError(true)
StrokeFetchRejects(f) ==
    /\ fetches[f].pc \in {"fetching", "text"}
    /\ fetches' = [fetches EXCEPT ![f].pc = "failed"]
    /\ svgError' = TRUE
    /\ UNCHANGED <<kanjiProp, svgContent, isPlaying>>

-----------------------------------------------------------------------------
(* SpecStroke: StrokeOrderAnimation under every change of its prop and every
   order of the responses *)

\* the component after its mount: the effect has run once
InitStroke ==
    /\ kanjiProp \in Kanji
    /\ svgContent = <<>> /\ svgError = FALSE /\ isPlaying = FALSE
    /\ fetches = << NewFetch(kanjiProp) >>
    /\ mounted = "none" /\ ocrStatus = <<"", "">> /\ ocrResult = <<>>
    /\ isChecking = FALSE /\ checks = <<>> /\ calls = <<>>
    /\ PageUnused /\ PanelUnused
    /\ charList = <<>>
    /\ HookUnused /\ DecodeUnused /\ NormUnused /\ DataUnused

otherThanStroke ==
    <<hookVars, mounted, ocrStatus, ocrResult, isChecking, pageVars, panelVars,
      checks, calls, decodeVars, normVars, dataVars>>

NextStroke ==
    \/ \E k \in Kanji : StrokeKanjiChanges(k) /\ UNCHANGED otherThanStroke
    \/ \E f \in 1..Len(fetches) : \E ok \in BOOLEAN :
          StrokeFetchResolves(f, ok) /\ UNCHANGED otherThanStroke
    \/ \E f \in 1..Len(fetches) : StrokeTextResolves(f) /\ UNCHANGED otherThanStroke
    \/ \E f \in 1..Len(fetches) : StrokeFetchRejects(f) /\ UNCHANGED otherThanStroke

SpecStroke == InitStroke /\ [][NextStroke]_vars

\* C32: once every fetch has settled, the SVG content, if any, is that of the
\* current kanji, and the error state, if set, comes from a fetch for the
\* current kanji.
C32_ContentBelongsToCurrentKanji ==
    (fetches # <<>> /\ \A f \in 1..Len(fetches) : fetches[f].pc \in {"done", "failed"})
       => /\ svgContent # <<>> => svgContent = Svg(kanjiProp)
          /\ svgError => \E f \in 1..Len(fetches) :
                            fetches[f].kanji = kanjiProp /\ fetches[f].pc = "failed"

=============================================================================
